---- MODULE Spec2Model ----
(***************************************************************************)
(* Model of the teacher-channel permission mirror of strawberry-school     *)
(* (src/teacherchannel/module.py, src/teacherchannel/database.py).         *)
(*                                                                         *)
(* One guild.  The platform state is the guild's channel cache             *)
(* (guild.get_channel); the database state is the two tables               *)
(* school_teacherchannel_teacherchannel (links, database.py:11-21) and     *)
(* school_teacherchannel_teacher (marks, database.py:114-126).  Every      *)
(* command handler, the channel-update listener and the reconciliation     *)
(* task is one action, run without interleaving; the replies, platform     *)
(* calls, _sync invocations and deleted rows of the last handler are       *)
(* recorded in last.                                                       *)
(*                                                                         *)
(* Platform calls succeed and the cache shows their effect at once.  An    *)
(* exception a handler does not catch (MultipleResultsFound of             *)
(* one_or_none, IntegrityError of commit, AttributeError on a channel that *)
(* is None) ends the handler; what it committed before stays.              *)
(*                                                                         *)
(* Spec       all handlers, from an empty database or one stored link.     *)
(* SpecSync   the callers of _sync on arbitrary channel states.            *)
(* SpecMirror set, master updates, teacher add and teacher remove alone.   *)
(* SpecRace   _sync coroutines suspended at their awaits, interleaved.     *)
(* SpecLive   the reconciliation task under fair scheduling.               *)
(* SpecFail   platform calls that raise inside _sync.                      *)
(*                                                                         *)
(* The review cog (src/review), the delete commands and the embed          *)
(* extensions of the school cog (src/school) and the semester_reset cog    *)
(* (src/semester_reset) are modelled in the later sections, each with its  *)
(* own specification: SpecReview, SpecEdit, SpecList, SpecVotes,           *)
(* SpecDelete, SpecExtend, SpecReset.  The import, the link command and    *)
(* subject edit of the school cog work on the tables in school:            *)
(* SpecImport, SpecSubjectEdit.                                            *)
(***************************************************************************)
EXTENDS Integers, Sequences, FiniteSets, TLC

\* ---------------------------------------------------------------- bounds

\* Longest run explored: number of commands, events and platform changes.
MaxSteps == 3

\* ------------------------------------------------------- platform domains

\* Text channels of the guild (nextcord.TextChannel).
TextIds == {1, 2, 3}
\* A channel that is not a text channel (voice).
VoiceIds == {4}
ChannelIds == TextIds \cup VoiceIds

\* Members of the guild, in the iteration order of overwrites.items();
\* overwrite targets are members (a role target behaves as a member that is
\* never marked).
TargetOrder == <<"m1", "m2">>
Members == {TargetOrder[i] : i \in DOMAIN TargetOrder}
Targets == Members

\* channel.category: no category or a category channel.
Categories == {"nocat", "cat1"}

\* Values of a PermissionOverwrite.  "rw" is read_messages=True,
\* send_messages=True, the value teacher add writes.
OwVals == {"rw", "deny"}
NoOw == "none"
OwMaps == [Targets -> OwVals \cup {NoOw}]
EmptyOw == [t \in Targets |-> NoOw]

\* A channel object of the cache; Gone stands for get_channel(...) is None.
Gone == [exists |-> FALSE, category |-> "nocat", overwrites |-> EmptyOw]
Fresh == [exists |-> TRUE, category |-> "nocat", overwrites |-> EmptyOw]
Snapshots == [exists : {TRUE}, category : Categories, overwrites : OwMaps]

VARIABLES
    channels,     \* guild.get_channel: id -> channel object (or Gone)
    links,        \* rows of TeacherChannel: [master, slave]
    marks,        \* rows of Teacher: [user, slave]
    reconciled,   \* load_deltas has run (tasks.loop(count=1))
    last,         \* what the last handler did: op, outcome, platform calls
    steps,
    syncing,      \* _sync coroutines in flight, in the order they were started
    dataset,      \* rows of Subject, Teacher (school) and Program: [kind, id]
    reviews,      \* rows of SubjectReview and TeacherReview
    votes,        \* rows of SubjectRelevance and TeacherRelevance
    serial,       \* last idx the sequence of each review table gave out
    today,        \* date.today(), in days
    cast,         \* the votes passed to Review.vote since the last reset
    roles,        \* member -> the roles the member has
    extensions,   \* SchoolExtend: kind of embed -> callbacks, as registered
    school        \* tables of the school cog: teachers, subjects, programs, links

\* The state of the review cog and of the dataset it reviews.
reviewVars == <<dataset, reviews, votes, serial, today, cast>>

vars == <<channels, links, marks, reconciled, last, steps, syncing,
          dataset, reviews, votes, serial, today, cast, roles, extensions, school>>

\* The embeds extensions are registered for (the three lists of SchoolExtend),
\* and the lists as the class is defined.
ExtKinds == {"subject", "teacher", "program"}
NoExtensions == [k \in ExtKinds |-> <<>>]

\* The tables of the school cog with no row in them.
NoSchool == [teachers |-> {}, subjects |-> {}, programs |-> {}, relations |-> {}]

\* The lists once the review cog is loaded (Review.__init__).
ReviewExtensions ==
    [k \in ExtKinds |-> IF k = "program" THEN <<>> ELSE <<"_extend">>]

\* No coroutine is suspended at an await.
NoneSuspended == syncing = <<>>

\* The tables of the school and review cogs are empty and no member has a
\* role.
NothingElse ==
    /\ dataset = {} /\ reviews = {} /\ votes = {}
    /\ serial = [k \in {"subject", "teacher"} |-> 0]
    /\ today = 0
    /\ cast = {}
    /\ roles = [m \in Members |-> {}]
    /\ extensions = NoExtensions
    /\ school = NoSchool

\* ------------------------------------------------------------ database.py

\* TeacherChannel.get: the rows whose master_id or slave_id is the channel
\* (one guild, so the guild_id filter keeps them all).  one_or_none() returns
\* None for no row, the row for one, and raises MultipleResultsFound for more.
GetRows(lk, ch) == {l \in lk : l.master = ch \/ l.slave = ch}

\* TeacherChannel.teachers of a row: [t.user_id for t in channel.teachers].
TeacherIds(mk, link) == {r.user : r \in {x \in mk : x.slave = link.slave}}

\* Mutant of RemoveChannelMarks: the teachers relationship has no cascade.
RemoveChannelMarks_NoCascade(mk, link) == mk

\* TeacherChannel.remove_channel: session.delete(self) and the
\* cascade="all, delete-orphan" of the teachers relationship.
RemoveChannelLinks(lk, link) == lk \ {link}
RemoveChannelMarks(mk, link) == {r \in mk : r.slave # link.slave}

\* Mutant of InsertRejected: slave_id is no key of the table.
InsertRejected_Never(lk, master, slave) == FALSE

\* The table's constraints at commit: slave_id is the primary key (master_id
\* unique holds already when add_channel found no row for master_id).
InsertRejected(lk, master, slave) ==
    (\E l \in lk : l.slave = slave) \/ (\E l \in lk : l.master = master)

\* remove_channel on the handler state st; the deleted row and the teachers
\* it had are logged in st.pruned.
RemoveChannel(st, link) ==
    [st EXCEPT !.lk = RemoveChannelLinks(st.lk, link),
               !.mk = RemoveChannelMarks(st.mk, link),
               !.pruned = Append(st.pruned,
                   [link |-> link, teachers |-> TeacherIds(st.mk, link)])]

\* ------------------------------------------------------ platform calls

Move(ch, cat) == [kind |-> "move", ch |-> ch, target |-> "-", value |-> cat]
SetPerm(ch, t, v) == [kind |-> "perm", ch |-> ch, target |-> t, value |-> v]
Delete(ch) == [kind |-> "delete", ch |-> ch, target |-> "-", value |-> "-"]

\* Effect of one call on the channel cache.
ApplyCall(chs, c) ==
    CASE c.kind = "move" -> [chs EXCEPT ![c.ch].category = c.value]
      [] c.kind = "perm" -> [chs EXCEPT ![c.ch].overwrites[c.target] = c.value]
      [] c.kind = "delete" -> [chs EXCEPT ![c.ch] = Gone]

RECURSIVE ApplyCalls(_, _)
ApplyCalls(chs, calls) ==
    IF calls = <<>> THEN chs
    ELSE ApplyCalls(ApplyCall(chs, Head(calls)), Tail(calls))

\* (target, overwrite) in channel.overwrites.items()
HasPair(ch, t, v) == v # NoOw /\ ch.overwrites[t] = v

\* --------------------------------------------------------------- _sync

\* Mutants of Revoked: the revocation pass is missing; the pass does not skip
\* the pairs that after still holds.
Revoked_Missing(before, after, teachers) == <<>>
Revoked_NoSkip(before, after, teachers) ==
    SelectSeq(TargetOrder, LAMBDA t :
        before.overwrites[t] # NoOw /\ t \notin teachers)

\* "negative change": the targets the first loop of _sync clears.
Revoked(before, after, teachers) ==
    SelectSeq(TargetOrder, LAMBDA t :
        /\ before.overwrites[t] # NoOw
        /\ ~HasPair(after, t, before.overwrites[t])
        /\ t \notin teachers)

\* Mutant of Applied: the application pass does not exempt the teachers.
Applied_TeachersToo(before, after, teachers) ==
    SelectSeq(TargetOrder, LAMBDA t :
        /\ after.overwrites[t] # NoOw
        /\ ~HasPair(before, t, after.overwrites[t]))

\* "positive change": the targets the second loop of _sync sets.
Applied(before, after, teachers) ==
    SelectSeq(TargetOrder, LAMBDA t :
        /\ after.overwrites[t] # NoOw
        /\ ~HasPair(before, t, after.overwrites[t])
        /\ t \notin teachers)

\* Mutant of SyncCalls: the slave is moved without comparing the categories.
SyncCalls_AlwaysMove(before, after, link, mk) ==
    LET teachers == TeacherIds(mk, link)
        neg == Revoked(before, after, teachers)
        pos == Applied(before, after, teachers)
    IN  <<Move(link.slave, after.category)>>
        \o
        (IF after.overwrites # before.overwrites
            THEN [i \in 1..Len(neg) |-> SetPerm(link.slave, neg[i], NoOw)]
                 \o [i \in 1..Len(pos) |->
                        SetPerm(link.slave, pos[i], after.overwrites[pos[i]])]
            ELSE <<>>)

\* The calls _sync issues on a resolvable slave, in order.
SyncCalls(before, after, link, mk) ==
    LET teachers == TeacherIds(mk, link)
        neg == Revoked(before, after, teachers)
        pos == Applied(before, after, teachers)
    IN  (IF after.category # before.category
            THEN <<Move(link.slave, after.category)>> ELSE <<>>)
        \o
        (IF after.overwrites # before.overwrites
            THEN [i \in 1..Len(neg) |-> SetPerm(link.slave, neg[i], NoOw)]
                 \o [i \in 1..Len(pos) |->
                        SetPerm(link.slave, pos[i], after.overwrites[pos[i]])]
            ELSE <<>>)

\* Mutant of Sync: a slave that cannot be resolved ends the sync and the
\* link stays.
Sync_KeepsStaleLink(st, before, after, link) ==
    LET entry == [link |-> link, before |-> before, after |-> after,
                  teachers |-> TeacherIds(st.mk, link),
                  pre |-> st.chs[link.slave], post |-> Gone, calls |-> <<>>]
    IN IF ~st.chs[link.slave].exists
       THEN [st EXCEPT !.syncs = Append(st.syncs, entry)]
       ELSE LET calls == SyncCalls(before, after, link, st.mk)
                chs == ApplyCalls(st.chs, calls)
            IN [st EXCEPT !.chs = chs,
                          !.calls = st.calls \o calls,
                          !.syncs = Append(st.syncs,
                              [entry EXCEPT !.post = chs[link.slave],
                                            !.calls = calls])]

\* _sync(channel_before, channel_after, teacherchannel) on the state st =
\* [chs, lk, mk, calls, syncs, pruned]: prune the link when the slave is gone,
\* otherwise issue the calls.  Each invocation is logged with its arguments,
\* the link's teachers and the slave as it was before (pre) and after (post).
Sync(st, before, after, link) ==
    LET entry == [link |-> link, before |-> before, after |-> after,
                  teachers |-> TeacherIds(st.mk, link),
                  pre |-> st.chs[link.slave], post |-> Gone, calls |-> <<>>]
    IN IF ~st.chs[link.slave].exists
       THEN [RemoveChannel(st, link) EXCEPT !.syncs = Append(st.syncs, entry)]
       ELSE LET calls == SyncCalls(before, after, link, st.mk)
                chs == ApplyCalls(st.chs, calls)
            IN [st EXCEPT !.chs = chs,
                          !.calls = st.calls \o calls,
                          !.syncs = Append(st.syncs,
                              [entry EXCEPT !.post = chs[link.slave],
                                            !.calls = calls])]

State(chs, lk, mk) ==
    [chs |-> chs, lk |-> lk, mk |-> mk, calls |-> <<>>, syncs |-> <<>>,
     pruned |-> <<>>]

\* ------------------------------------------------------------ handlers

Result(op, ch, ch2, member, reply, st) ==
    [op |-> op, ch |-> ch, ch2 |-> ch2, member |-> member, reply |-> reply,
     syncs |-> st.syncs, calls |-> st.calls, pruned |-> st.pruned]

Commit(st, res) ==
    /\ channels' = st.chs
    /\ links' = st.lk
    /\ marks' = st.mk
    /\ last' = res
    /\ steps' = steps + 1
    /\ UNCHANGED <<syncing, reviewVars, roles, extensions, school>>

Here == State(channels, links, marks)

\* teacherchannel set <master> <slave>
teacherchannel_set(master, slave) ==
    /\ steps < MaxSteps
    /\ channels[master].exists /\ channels[slave].exists
    /\ LET rows == GetRows(links, master)
           link == [master |-> master, slave |-> slave]
           added == [Here EXCEPT !.lk = links \cup {link}]
       IN CASE Cardinality(rows) > 1 ->
                 Commit(Here, Result("set", master, slave, "-", "MultipleResultsFound", Here))
            [] Cardinality(rows) = 1 ->
                 Commit(Here, Result("set", master, slave, "-", "already assigned", Here))
            [] Cardinality(rows) = 0 /\ InsertRejected(links, master, slave) ->
                 Commit(Here, Result("set", master, slave, "-", "IntegrityError", Here))
            [] OTHER ->
                 LET st == Sync(added, channels[slave], channels[master], link)
                 IN Commit(st, Result("set", master, slave, "-", "created", st))
    /\ UNCHANGED reconciled

\* teacherchannel unset <channel>
teacherchannel_unset(ch) ==
    /\ steps < MaxSteps
    /\ channels[ch].exists
    /\ LET rows == GetRows(links, ch)
       IN CASE Cardinality(rows) > 1 ->
                 Commit(Here, Result("unset", ch, 0, "-", "MultipleResultsFound", Here))
            [] Cardinality(rows) = 0 ->
                 Commit(Here, Result("unset", ch, 0, "-", "never assigned", Here))
            [] OTHER ->
                 LET link == CHOOSE l \in rows : TRUE
                     st == RemoveChannel(Here, link)
                 IN Commit(st, Result("unset", ch, 0, "-", "unset", st))
    /\ UNCHANGED reconciled

\* teacherchannel teacher add <channel> <teacher>
teacherchannel_teacher_add(ch, teacher) ==
    /\ steps < MaxSteps
    /\ channels[ch].exists
    /\ LET rows == GetRows(links, ch)
       IN CASE Cardinality(rows) > 1 ->
                 Commit(Here, Result("teacher_add", ch, 0, teacher, "MultipleResultsFound", Here))
            [] Cardinality(rows) = 0 ->
                 Commit(Here, Result("teacher_add", ch, 0, teacher, "could not add", Here))
            [] OTHER ->
                 LET link == CHOOSE l \in rows : TRUE
                     marked == [Here EXCEPT
                                  !.mk = marks \cup {[user |-> teacher, slave |-> link.slave]}]
                     call == SetPerm(link.slave, teacher, "rw")
                     st == [marked EXCEPT !.chs = ApplyCall(channels, call),
                                          !.calls = <<call>>]
                 IN IF teacher \in TeacherIds(marks, link)
                    THEN Commit(Here, Result("teacher_add", ch, 0, teacher, "could not add", Here))
                    ELSE IF ~channels[link.slave].exists
                    THEN Commit(marked, Result("teacher_add", ch, 0, teacher, "AttributeError", marked))
                    ELSE Commit(st, Result("teacher_add", ch, 0, teacher, "added", st))
    /\ UNCHANGED reconciled

\* teacherchannel teacher remove <channel> <teacher>
teacherchannel_teacher_remove(ch, teacher) ==
    /\ steps < MaxSteps
    /\ channels[ch].exists
    /\ LET rows == GetRows(links, ch)
       IN CASE Cardinality(rows) > 1 ->
                 Commit(Here, Result("teacher_remove", ch, 0, teacher, "MultipleResultsFound", Here))
            [] Cardinality(rows) = 0 ->
                 Commit(Here, Result("teacher_remove", ch, 0, teacher, "could not remove", Here))
            [] OTHER ->
                 LET link == CHOOSE l \in rows : TRUE
                     unmarked == [Here EXCEPT
                                    !.mk = marks \ {[user |-> teacher, slave |-> link.slave]}]
                     call == SetPerm(link.slave, teacher, NoOw)
                     st == [unmarked EXCEPT !.chs = ApplyCall(channels, call),
                                            !.calls = <<call>>]
                 IN IF teacher \notin TeacherIds(marks, link)
                    THEN Commit(Here, Result("teacher_remove", ch, 0, teacher, "could not remove", Here))
                    ELSE IF ~channels[link.slave].exists
                    THEN Commit(unmarked, Result("teacher_remove", ch, 0, teacher, "AttributeError", unmarked))
                    ELSE Commit(st, Result("teacher_remove", ch, 0, teacher, "removed", st))
    /\ UNCHANGED reconciled

\* The listener on_guild_channel_update(channel_before, channel_after) run on
\* the cache chs that already holds channel_after.
OnUpdate(chs, before, after, ch) ==
    LET st0 == State(chs, links, marks)
        rows == GetRows(links, ch)
    IN CASE ch \notin TextIds -> Result("update", ch, 0, "-", "ignored", st0) @@ [st |-> st0]
         [] Cardinality(rows) > 1 ->
              Result("update", ch, 0, "-", "MultipleResultsFound", st0) @@ [st |-> st0]
         [] Cardinality(rows) = 0 -> Result("update", ch, 0, "-", "ignored", st0) @@ [st |-> st0]
         [] OTHER ->
              LET link == CHOOSE l \in rows : TRUE
                  st == Sync(st0, before, after, link)
              IN IF ch = link.slave
                 THEN Result("update", ch, 0, "-", "ignored", st0) @@ [st |-> st0]
                 ELSE Result("update", ch, 0, "-", "synced", st) @@ [st |-> st]

\* The platform changes a channel (its category, its overwrites, or another
\* attribute such as its name, which leaves both as they were) and reports it.
on_guild_channel_update(ch, after) ==
    /\ steps < MaxSteps
    /\ channels[ch].exists
    /\ LET r == OnUpdate([channels EXCEPT ![ch] = after], channels[ch], after, ch)
       IN Commit(r.st, [f \in DOMAIN r \ {"st"} |-> r[f]])
    /\ UNCHANGED reconciled

\* A channel is deleted on the platform (no listener of the cog reacts).
ChannelDeleted(ch) ==
    /\ steps < MaxSteps
    /\ channels[ch].exists
    /\ Commit([Here EXCEPT !.chs[ch] = Gone], Result("deleted", ch, 0, "-", "-", Here))
    /\ UNCHANGED reconciled

\* Mutant of ReconcileLink: a link whose master is gone is dropped and its
\* slave channel is kept.
ReconcileLink_KeepsSlave(st, link) ==
    IF ~st.chs[link.master].exists \/ ~st.chs[link.slave].exists
    THEN RemoveChannel(st, link)
    ELSE Sync(st, st.chs[link.slave], st.chs[link.master], link)

\* Mutant of ReconcileLink: a link with a missing channel is skipped.
ReconcileLink_SkipsStale(st, link) ==
    IF ~st.chs[link.master].exists \/ ~st.chs[link.slave].exists
    THEN st
    ELSE Sync(st, st.chs[link.slave], st.chs[link.master], link)

\* One iteration of the loop of load_deltas.
ReconcileLink(st, link) ==
    IF ~st.chs[link.master].exists
    THEN LET dropped == RemoveChannel(st, link)
         IN IF st.chs[link.slave].exists
            THEN [dropped EXCEPT !.chs = ApplyCall(st.chs, Delete(link.slave)),
                                 !.calls = st.calls \o <<Delete(link.slave)>>]
            ELSE dropped
    ELSE IF ~st.chs[link.slave].exists
    THEN RemoveChannel(st, link)
    ELSE Sync(st, st.chs[link.slave], st.chs[link.master], link)

RECURSIVE ReconcileAll(_, _)
ReconcileAll(st, todo) ==
    IF todo = <<>> THEN st
    ELSE ReconcileAll(ReconcileLink(st, Head(todo)), Tail(todo))

\* The orders in which get_all can return the rows (no ORDER BY).
Orders(S) ==
    {f \in [1..Cardinality(S) -> S] : \A i, j \in 1..Cardinality(S) : f[i] = f[j] => i = j}

\* The reconciliation task: tasks.loop(seconds=10.0, count=1) runs it once.
load_deltas ==
    /\ steps < MaxSteps
    /\ ~reconciled
    /\ \E todo \in Orders(links) :
          LET st == ReconcileAll(Here, todo)
          IN Commit(st, Result("load_deltas", 0, 0, "-", "-", st))
    /\ reconciled' = TRUE

\* ------------------------------------------------------- specification

NoResult ==
    [op |-> "init", ch |-> 0, ch2 |-> 0, member |-> "-", reply |-> "-",
     syncs |-> <<>>, calls |-> <<>>, pruned |-> <<>>]

\* The changes one edit of a channel makes: none of the two mirrored
\* attributes, the category, or one target's overwrite.
SingleEdits(ch) ==
    {ch} \cup {[ch EXCEPT !.category = c] : c \in Categories}
         \cup {[ch EXCEPT !.overwrites[t] = v] : t \in Targets, v \in OwVals \cup {NoOw}}

\* The cog is loaded.  The database is empty or holds a link of an earlier
\* run; the reconciliation task has not run yet.
Init ==
    /\ channels = [c \in ChannelIds |-> Fresh]
    /\ links \in {{}, {[master |-> 1, slave |-> 2]}}
    /\ marks = {}
    /\ reconciled = FALSE
    /\ last = NoResult
    /\ steps = 0
    /\ NoneSuspended /\ NothingElse

Next ==
    \/ \E m, s \in TextIds : teacherchannel_set(m, s)
    \/ \E c \in TextIds : teacherchannel_unset(c)
    \/ \E c \in TextIds, t \in Members : teacherchannel_teacher_add(c, t)
    \/ \E c \in TextIds, t \in Members : teacherchannel_teacher_remove(c, t)
    \/ \E c \in ChannelIds : \E a \in SingleEdits(channels[c]) : on_guild_channel_update(c, a)
    \/ \E c \in ChannelIds : ChannelDeleted(c)
    \/ load_deltas

Spec == Init /\ [][Next]_vars

\* ------------------------------------- the sync routine on arbitrary inputs

\* Bound of SpecSync: handlers run from each initial state.
MaxSyncs == 1

Link12 == [master |-> 1, slave |-> 2]

\* Channel 1 without category and with arbitrary overwrites, channel 2 with
\* arbitrary category and overwrites or deleted, linked or not, with any set
\* of teacher marks on the link.
InitSync ==
    /\ \E m \in {x \in Snapshots : x.category = "nocat"}, s \in Snapshots \cup {Gone} :
          channels = [c \in ChannelIds |-> IF c = 1 THEN m ELSE IF c = 2 THEN s ELSE Gone]
    /\ links \in {{}, {Link12}}
    /\ marks \in SUBSET {[user |-> t, slave |-> 2] : t \in Members}
    /\ links = {} => marks = {}
    /\ reconciled = FALSE
    /\ last = NoResult
    /\ steps = 0
    /\ NoneSuspended /\ NothingElse

\* The three callers of _sync, and the teacher commands.
NextSync ==
    \/ \E c \in {1, 2}, a \in Snapshots :
          steps < MaxSyncs /\ on_guild_channel_update(c, a)
    \/ \E m, s \in {1, 2} : steps < MaxSyncs /\ teacherchannel_set(m, s)
    \/ steps < MaxSyncs /\ load_deltas
    \/ \E c \in {1, 2}, t \in Members :
          steps < MaxSyncs /\ teacherchannel_teacher_add(c, t)
    \/ \E c \in {1, 2}, t \in Members :
          steps < MaxSyncs /\ teacherchannel_teacher_remove(c, t)

SpecSync == InitSync /\ [][NextSync]_vars

\* ------------------------------------ the operations of the mirror alone

IsMaster(lk, ch) == \E l \in lk : l.master = ch

\* Two channels, the first with any category and overwrites, nothing linked.
InitMirror ==
    /\ \E m \in Snapshots :
          channels = [c \in ChannelIds |-> IF c = 1 THEN m ELSE IF c = 2 THEN Fresh ELSE Gone]
    /\ links = {}
    /\ marks = {}
    /\ reconciled = FALSE
    /\ last = NoResult
    /\ steps = 0
    /\ NoneSuspended /\ NothingElse

\* teacherchannel set, changes of a master delivered as update events,
\* teacher add and teacher remove.
NextMirror ==
    \/ \E m, s \in TextIds : teacherchannel_set(m, s)
    \/ \E c \in TextIds : \E a \in SingleEdits(channels[c]) :
          IsMaster(links, c) /\ on_guild_channel_update(c, a)
    \/ \E c \in TextIds, t \in Members : teacherchannel_teacher_add(c, t)
    \/ \E c \in TextIds, t \in Members : teacherchannel_teacher_remove(c, t)

SpecMirror == InitMirror /\ [][NextMirror]_vars

\* ================================================================ claims

Range(q) == {q[i] : i \in DOMAIN q}

\* The invocations of _sync by the last handler that found the slave.
Completed == {e \in Range(last.syncs) : e.pre.exists}

NonTeachers(e) == Targets \ e.teachers

\* ---------------------------------------------------------------- C1
\* C1: whenever no handler is running, for every link whose master and slave
\* both exist the slave's category equals the master's and, for every target
\* that is not a marked teacher of the link, the slave's overwrite equals the
\* master's.
C1_MirrorInvariant ==
    \A l \in links :
        (channels[l.master].exists /\ channels[l.slave].exists) =>
            /\ channels[l.slave].category = channels[l.master].category
            /\ \A t \in Targets \ TeacherIds(marks, l) :
                  channels[l.slave].overwrites[t] = channels[l.master].overwrites[t]

\* ---------------------------------------------------------------- C2
\* C2 (as claimed): after every completed _sync, whatever the slave's
\* overwrites were before, the slave's overwrites are after's for the
\* non-teacher targets and the slave's previous ones for the teachers.
C2_SyncYieldsAfter ==
    \A e \in Completed : \A t \in Targets :
        e.post.overwrites[t] =
            IF t \in e.teachers THEN e.pre.overwrites[t] ELSE e.after.overwrites[t]

\* The slave mirrored channel_before on the non-teacher targets.
SlaveMirroredBefore(e) ==
    \A t \in NonTeachers(e) : e.pre.overwrites[t] = e.before.overwrites[t]

\* C2 (amended): after every completed _sync that started with the slave's
\* non-teacher overwrites equal to before's, the slave's overwrites are
\* after's for the non-teacher targets and the slave's previous ones for the
\* teachers.
C2_SyncYieldsAfterFromMirror ==
    \A e \in Completed :
        SlaveMirroredBefore(e) =>
            \A t \in Targets :
                e.post.overwrites[t] =
                    IF t \in e.teachers THEN e.pre.overwrites[t]
                    ELSE e.after.overwrites[t]

\* A sync of an update event that changed a non-teacher target's value and
\* dropped a teacher's overwrite, on a slave that mirrored before.
C2_Witness ==
    /\ last.op = "update"
    /\ \E e \in Completed :
          /\ SlaveMirroredBefore(e)
          /\ \E t \in e.teachers :
                /\ e.before.overwrites[t] # NoOw /\ e.after.overwrites[t] = NoOw
                /\ e.pre.overwrites[t] # NoOw
          /\ \E t \in NonTeachers(e) :
                /\ e.before.overwrites[t] # NoOw /\ e.after.overwrites[t] # NoOw
                /\ e.before.overwrites[t] # e.after.overwrites[t]

\* ---------------------------------------------------------------- C3
\* The overwrite of target t on the slave of link l differs across the step.
SlaveOverwriteChanged(l, t) ==
    /\ channels[l.slave].exists /\ channels'[l.slave].exists
    /\ channels'[l.slave].overwrites[t] # channels[l.slave].overwrites[t]

C3_Step ==
    /\ \A e \in Completed' : \A t \in e.teachers :
          /\ e.post.overwrites[t] = e.pre.overwrites[t]
          /\ \A c \in Range(e.calls) : c.target # t
    /\ \A l \in links \cap links' :
          \A t \in TeacherIds(marks, l) \cup TeacherIds(marks', l) :
              SlaveOverwriteChanged(l, t) =>
                  \/ last'.op \in {"teacher_add", "teacher_remove"} /\ last'.member = t
                  \/ last'.op = "update" /\ last'.ch = l.slave

\* C3: _sync issues no call for a target among the link's teacher marks and
\* leaves the slave's overwrite of each such target as it was, for every
\* before/after pair; the handlers of the cog change the slave's overwrite of
\* a marked target only in teacher add and teacher remove (the remaining
\* change is an edit of the slave itself on the platform).
C3_TeacherExemption == [][C3_Step]_vars

\* The master dropped the overwrite of a marked teacher and the sync left the
\* slave's overwrite for that teacher in place.
C3_Witness ==
    /\ last.op = "update"
    /\ \E e \in Completed : \E t \in e.teachers :
          /\ e.before.overwrites[t] # NoOw /\ e.after.overwrites[t] = NoOw
          /\ e.pre.overwrites[t] # NoOw
          /\ e.post.overwrites[t] = e.pre.overwrites[t]
          /\ channels[e.link.slave].overwrites[t] # NoOw

\* ---------------------------------------------------------------- C4
SameMirrored(a, b) == a.category = b.category /\ a.overwrites = b.overwrites

\* The slave after _sync is run once more with the arguments of e.
SyncedAgain(e) ==
    LET mk == {[user |-> t, slave |-> e.link.slave] : t \in e.teachers}
        chs == [c \in ChannelIds |-> IF c = e.link.slave THEN e.post ELSE Gone]
    IN ApplyCalls(chs, SyncCalls(e.before, e.after, e.link, mk))[e.link.slave]

\* The slave after the caller that passes the slave itself as channel_before
\* (set, load_deltas) runs _sync once more.
SyncedAgainLive(e) ==
    LET mk == {[user |-> t, slave |-> e.link.slave] : t \in e.teachers}
        chs == [c \in ChannelIds |-> IF c = e.link.slave THEN e.post ELSE Gone]
    IN ApplyCalls(chs, SyncCalls(e.post, e.after, e.link, mk))[e.link.slave]

\* C4: a _sync whose before and after have the same category and overwrites
\* issues no call and leaves the slave as it was; running a completed
\* _sync(before, after, link) once more (with the same snapshots or, where
\* before is the slave itself, with the slave as it is now) leaves the
\* slave's non-teacher overwrites as the first run left them.
C4_Idempotent ==
    \A e \in Completed :
        /\ SameMirrored(e.before, e.after) => e.calls = <<>> /\ e.post = e.pre
        /\ \A t \in NonTeachers(e) :
              SyncedAgain(e).overwrites[t] = e.post.overwrites[t]
        /\ e.before = e.pre =>
              \A t \in NonTeachers(e) :
                  SyncedAgainLive(e).overwrites[t] = e.post.overwrites[t]

\* An update event that changed neither category nor overwrites reached a
\* slave that differs from the master, and nothing was done.
C4_Witness ==
    /\ last.op = "update"
    /\ \E e \in Completed :
          /\ SameMirrored(e.before, e.after)
          /\ ~SameMirrored(e.pre, e.after)
          /\ last.calls = <<>>
          /\ channels[e.link.slave] = e.pre

\* ---------------------------------------------------------------- C5
PermCalls(e) == SelectSeq(e.calls, LAMBDA c : c.kind = "perm")

\* The non-teacher targets whose pair is in before but not identically in
\* after, and those whose pair is in after but not identically in before.
DroppedPairs(e) ==
    {t \in NonTeachers(e) :
        e.before.overwrites[t] # NoOw /\ e.after.overwrites[t] # e.before.overwrites[t]}
AddedPairs(e) ==
    {t \in NonTeachers(e) :
        e.after.overwrites[t] # NoOw /\ e.after.overwrites[t] # e.before.overwrites[t]}

\* C5: a completed _sync whose before and after overwrites differ clears
\* exactly the non-teacher targets whose pair is in before but not
\* identically in after, then sets exactly those whose pair is in after but
\* not identically in before to after's value, every clear before every set
\* and one call each; an untouched target keeps the slave's value and a
\* target that was set ends with after's value.
C5_DiffPasses ==
    \A e \in Completed :
        e.before.overwrites # e.after.overwrites =>
            LET pc == PermCalls(e)
                clears == {i \in DOMAIN pc : pc[i].value = NoOw}
                sets == {i \in DOMAIN pc : pc[i].value # NoOw}
            IN /\ {pc[i].target : i \in clears} = DroppedPairs(e)
               /\ {pc[i].target : i \in sets} = AddedPairs(e)
               /\ \A i \in sets : pc[i].value = e.after.overwrites[pc[i].target]
               /\ \A i \in clears, j \in sets : i < j
               /\ Len(pc) = Cardinality(DroppedPairs(e)) + Cardinality(AddedPairs(e))
               /\ \A i \in DOMAIN pc : pc[i].ch = e.link.slave
               /\ \A t \in Targets :
                     e.post.overwrites[t] =
                        IF t \in AddedPairs(e) THEN e.after.overwrites[t]
                        ELSE IF t \in DroppedPairs(e) THEN NoOw
                        ELSE e.pre.overwrites[t]

\* before {m1: rw}, after {m1: rw, m2: deny}, no teacher: the only call sets
\* m2 to deny and m1 stays as it was on the slave.
C5_Witness ==
    /\ last.op = "update"
    /\ \E e \in Completed :
          /\ e.teachers = {}
          /\ e.before.overwrites = [EmptyOw EXCEPT !["m1"] = "rw"]
          /\ e.after.overwrites = [EmptyOw EXCEPT !["m1"] = "rw", !["m2"] = "deny"]
          /\ e.pre.overwrites = e.before.overwrites
          /\ PermCalls(e) = <<SetPerm(e.link.slave, "m2", "deny")>>
          /\ channels[e.link.slave].overwrites = e.after.overwrites

\* ------------------------------------------------- steps of the handlers

\* The step is the reconciliation pass / a set command / an update event.
LoadStep == ~reconciled /\ reconciled'
SetStep == steps' = steps + 1 /\ last'.op = "set"
UpdateStep == steps' = steps + 1 /\ last'.op = "update"

PrunedLinks(res) == {p.link : p \in Range(res.pruned)}
SyncedLinks(res) == {e.link : e \in Range(res.syncs)}
NoMarksOf(mk, l) == \A r \in mk : r.slave # l.slave

\* ---------------------------------------------------------------- C6
C6_Step ==
    LoadStep =>
        /\ \A l \in links :
              ~channels[l.master].exists =>
                  /\ channels[l.slave].exists =>
                        \E i \in DOMAIN last'.calls : last'.calls[i] = Delete(l.slave)
                  /\ ~channels'[l.slave].exists
                  /\ l \notin links' /\ NoMarksOf(marks', l)
                  /\ l \notin SyncedLinks(last')
        /\ \A l \in links : l \in PrunedLinks(last') \cup SyncedLinks(last')

\* C6: in the reconciliation pass, a link whose master channel cannot be
\* resolved has its slave channel deleted if that still exists, its row and
\* its teacher marks deleted and no sync run for it, and the pass goes on:
\* every link of the pass is either pruned or synced.
C6_MasterGone == [][C6_Step]_vars

\* A pass deleted the slave of a link whose master was gone, pruned the
\* link, and went on to sync another link.
C6_Witness ==
    /\ last.op = "load_deltas"
    /\ \E p \in Range(last.pruned) :
          /\ \E i \in DOMAIN last.calls : last.calls[i] = Delete(p.link.slave)
          /\ ~channels[p.link.master].exists /\ ~channels[p.link.slave].exists
          /\ p.link \notin links
          /\ \E e \in Range(last.syncs) : e.link # p.link /\ e.link \in links

\* ---------------------------------------------------------------- C7
\* The master of link l is the slave of no link (no other link's sync or
\* healing acts on it).
MasterOnly(lk, l) == \A l2 \in lk : l2.slave # l.master

C7_Step ==
    /\ UpdateStep =>
          \A e \in Range(last'.syncs) :
              ~e.pre.exists =>
                  /\ e.link \in links /\ e.link \notin links'
                  /\ NoMarksOf(marks', e.link)
                  /\ last'.calls = <<>>
                  /\ channels'[e.link.master] = e.after
                  /\ \A d \in ChannelIds \ {last'.ch} : channels'[d] = channels[d]
    /\ LoadStep =>
          \A l \in links :
              (channels[l.master].exists /\ ~channels[l.slave].exists) =>
                  /\ l \notin links' /\ NoMarksOf(marks', l)
                  /\ \A i \in DOMAIN last'.calls : last'.calls[i].ch # l.slave
                  /\ l \notin SyncedLinks(last')
                  /\ MasterOnly(links, l) => channels'[l.master] = channels[l.master]

\* C7: when the slave of a link cannot be resolved while the master exists,
\* in _sync run for a master update event or in the reconciliation pass, the
\* link row (with its marks) is deleted, no move and no set_permissions call
\* is issued, and the master channel is as it was.
C7_SlaveGone == [][C7_Step]_vars

\* An update of a master whose slave was deleted: the link, which had a
\* teacher, is gone and the master exists.
C7_Witness ==
    /\ last.op = "update"
    /\ \E e \in Range(last.syncs) :
          /\ ~e.pre.exists /\ e.teachers # {}
          /\ channels[e.link.master].exists
          /\ e.link \notin links
          /\ last.calls = <<>>

\* ---------------------------------------------------------------- C8
\* C8: every TeacherMark row references the slave id of an existing
\* ChannelLink, and no mark of a link deleted by the last handler remains.
C8_NoOrphanMarks ==
    /\ \A r \in marks : \E l \in links : l.slave = r.slave
    /\ \A l \in PrunedLinks(last) : NoMarksOf(marks, l)

\* unset deleted a link that had teacher marks.
C8_Witness ==
    /\ last.op = "unset"
    /\ \E p \in Range(last.pruned) : p.teachers # {} /\ p.link \notin links

\* ---------------------------------------------------------------- C9
KeysUnique(lk) ==
    \A a, b \in lk : (a.master = b.master \/ a.slave = b.slave) => a = b

C9_Step ==
    /\ KeysUnique(links')
    /\ SetStep =>
          ((\E l \in links : l.master = last'.ch \/ l.slave = last'.ch2) =>
              links' = links /\ last'.reply # "created")

\* C9: no two ChannelLink rows have the same master id and no two the same
\* slave id; a set command whose master or slave id is already the master or
\* slave id of a row creates nothing and leaves the rows as they were.
C9_LinkKeys == [][C9_Step]_vars

\* set with the slave of an existing link as slave and an unlinked master
\* was rejected by the primary key.
C9_Witness ==
    /\ last.op = "set" /\ last.reply = "IntegrityError"
    /\ \E l \in links : l.slave = last.ch2 /\ l.master # last.ch
    /\ GetRows(links, last.ch) = {}

\* --------------------------------------------------------------- C10
C10_Step ==
    UpdateStep =>
        LET c == last'.ch
            isMaster == c \in TextIds /\ IsMaster(links, c)
        IN /\ (last'.syncs # <<>>) <=> isMaster
           /\ \A e \in Range(last'.syncs) :
                 e.link.master = c /\ e.before = channels[c] /\ e.after = channels'[c]
           /\ ~isMaster =>
                 /\ links' = links /\ marks' = marks
                 /\ last'.calls = <<>>
                 /\ \A d \in ChannelIds \ {c} : channels'[d] = channels[d]

\* C10: on a channel-update event _sync runs, with the event's snapshots,
\* if and only if the changed channel is a text channel that is the master
\* of a link; otherwise no channel and no stored link changes.
C10_EventTrigger == [][C10_Step]_vars

\* ============================================ _sync suspended at its awaits

\* Bound of SpecRace: update events of the master.
MaxEvents == 2

\* channel.overwrites.items() in iteration order.
Items(ch) ==
    LET ts == SelectSeq(TargetOrder, LAMBDA t : ch.overwrites[t] # NoOw)
    IN [i \in 1..Len(ts) |-> [target |-> ts[i], value |-> ch.overwrites[ts[i]]]]

\* A coroutine about to enter _sync.  The listener passes a copy of the
\* channel as it was (channel_before) and the cached channel object
\* (channel_after); load_deltas passes the cached slave and master objects.
Started(kind, link, before) ==
    [kind |-> kind, link |-> link, before |-> before, pc |-> "start",
     todo |-> <<>>]

\* channel_before as the coroutine reads it now.
SyncBefore(chs, task) ==
    IF task.kind = "event" THEN task.before ELSE chs[task.link.slave]

\* _sync from where the coroutine is suspended up to its next await of a
\* platform call, or to its end: the coroutine after the step, the call it
\* issues and whether it removed the link.
RECURSIVE Resume(_, _, _)
Resume(chs, mk, task) ==
    LET before == SyncBefore(chs, task)
        after == chs[task.link.master]
        slave == task.link.slave
        teachers == TeacherIds(mk, task.link)
        Goes(pc, todo) == Resume(chs, mk, [task EXCEPT !.pc = pc, !.todo = todo])
        Awaits(pc, todo, call) ==
            [task |-> [task EXCEPT !.pc = pc, !.todo = todo],
             calls |-> <<call>>, prune |-> FALSE]
        Ends(prune) ==
            [task |-> [task EXCEPT !.pc = "done", !.todo = <<>>],
             calls |-> <<>>, prune |-> prune]
    IN CASE task.pc = "start" ->
              IF ~chs[slave].exists THEN Ends(TRUE)
              ELSE IF after.category # before.category
                   THEN Awaits("moved", <<>>, Move(slave, after.category))
                   ELSE Goes("moved", <<>>)
         [] task.pc = "moved" ->
              IF after.overwrites # before.overwrites
              THEN Goes("negative", Items(before))
              ELSE Ends(FALSE)
         [] task.pc = "negative" ->
              IF task.todo = <<>> THEN Goes("positive", Items(after))
              ELSE LET p == Head(task.todo)
                   IN IF HasPair(after, p.target, p.value) \/ p.target \in teachers
                      THEN Goes("negative", Tail(task.todo))
                      ELSE Awaits("negative", Tail(task.todo),
                                  SetPerm(slave, p.target, NoOw))
         [] task.pc = "positive" ->
              IF task.todo = <<>> THEN Ends(FALSE)
              ELSE LET p == Head(task.todo)
                   IN IF HasPair(before, p.target, p.value) \/ p.target \in teachers
                      THEN Goes("positive", Tail(task.todo))
                      ELSE Awaits("positive", Tail(task.todo),
                                  SetPerm(slave, p.target, p.value))
         [] OTHER -> Ends(FALSE)

\* The platform changes the master and dispatches the update event; the
\* listener's coroutine is created and has not run yet.
MasterUpdated(ch, after) ==
    /\ steps < MaxEvents
    /\ channels[ch].exists /\ after # channels[ch]
    /\ ch \in TextIds
    /\ \E link \in GetRows(links, ch) :
          /\ GetRows(links, ch) = {link}
          /\ ch # link.slave
          /\ syncing' = Append(syncing, Started("event", link, channels[ch]))
    /\ channels' = [channels EXCEPT ![ch] = after]
    /\ steps' = steps + 1
    /\ UNCHANGED <<links, marks, reconciled, last, reviewVars, roles, extensions, school>>

\* load_deltas reaches the link: both channels exist, _sync(slave, master).
PassStarted ==
    /\ ~reconciled
    /\ \E link \in links :
          /\ channels[link.master].exists /\ channels[link.slave].exists
          /\ syncing' = Append(syncing, Started("pass", link, Gone))
    /\ reconciled' = TRUE
    /\ UNCHANGED <<channels, links, marks, last, steps, reviewVars, roles, extensions, school>>

\* A suspended coroutine is resumed and runs to its next await.
SyncResumed(i) ==
    /\ i \in DOMAIN syncing
    /\ syncing[i].pc # "done"
    /\ LET r == Resume(channels, marks, syncing[i])
       IN /\ syncing' = [syncing EXCEPT ![i] = r.task]
          /\ channels' = ApplyCalls(channels, r.calls)
          /\ links' = IF r.prune THEN RemoveChannelLinks(links, r.task.link)
                                 ELSE links
          /\ marks' = IF r.prune THEN RemoveChannelMarks(marks, r.task.link)
                                 ELSE marks
    /\ UNCHANGED <<reconciled, last, steps, reviewVars, roles, extensions, school>>

\* One edit of the master: its category, or its overwrites as a whole
\* (channel.edit(overwrites=...)).
BulkEdits(ch) ==
    {[ch EXCEPT !.category = c] : c \in Categories}
        \cup {[ch EXCEPT !.overwrites = o] : o \in OwMaps}

\* Channel 1, without category, is linked to channel 2 and the slave mirrors
\* it; the link has no teacher or the teacher m2.
InitRace ==
    /\ \E m \in {x \in Snapshots : x.category = "nocat"} :
          channels = [c \in ChannelIds |-> IF c \in {1, 2} THEN m ELSE Gone]
    /\ links = {Link12}
    /\ marks \in {{}, {[user |-> "m2", slave |-> 2]}}
    /\ reconciled = FALSE
    /\ last = NoResult
    /\ steps = 0
    /\ NoneSuspended /\ NothingElse

NextRace ==
    \/ \E a \in BulkEdits(channels[1]) : MasterUpdated(1, a)
    \/ PassStarted
    \/ \E i \in 1..(MaxEvents + 1) : SyncResumed(i)

SpecRace == InitRace /\ [][NextRace]_vars

\* --------------------------------------------------------------- C11
\* C11: when two _sync executions for the same link have interleaved at their
\* awaits and both have finished, the slave's overwrite of every target that
\* is not a marked teacher equals the master's final overwrite.
C11_InterleavedConverges ==
    (/\ Len(syncing) >= 2
     /\ \A i \in DOMAIN syncing : syncing[i].pc = "done"
     /\ links = {Link12})
    => \A t \in Targets \ TeacherIds(marks, Link12) :
          channels[2].overwrites[t] = channels[1].overwrites[t]

\* ============================================ the pass under fair scheduling

\* Bound of SpecLive: changes on the platform besides the pass.
MaxDrift == 2

\* Channels are edited and deleted on the platform and no operator command is
\* given; __init__ starts load_deltas and the loop runs it once the bot is
\* ready.
NextLive ==
    \/ \E c \in TextIds : \E a \in SingleEdits(channels[c]) :
          steps < MaxDrift /\ on_guild_channel_update(c, a)
    \/ \E c \in TextIds : steps < MaxDrift /\ ChannelDeleted(c)
    \/ load_deltas

SpecLive == Init /\ [][NextLive]_vars /\ WF_vars(load_deltas)

\* --------------------------------------------------------------- C12
\* A link one of whose channels does not exist on the platform.
Stale(l) ==
    l \in links /\ (~channels[l.master].exists \/ ~channels[l.slave].exists)

AllLinks == [master : TextIds, slave : TextIds]

C12_Step == LoadStep => \A l \in AllLinks : Stale(l) => l \notin links'

MaxFailures == 1

\* Mutant of SyncFails: the exception is swallowed and the calls after the
\* failing one are issued.
SyncFails_GoesOn(st, before, after, link, k) ==
    LET planned == SyncCalls(before, after, link, st.mk)
        made == SubSeq(planned, 1, k - 1) \o SubSeq(planned, k + 1, Len(planned))
        chs == ApplyCalls(st.chs, made)
    IN [st EXCEPT !.chs = chs,
                  !.calls = st.calls \o planned,
                  !.syncs = Append(st.syncs,
                      [link |-> link, before |-> before, after |-> after,
                       teachers |-> TeacherIds(st.mk, link),
                       pre |-> st.chs[link.slave], post |-> chs[link.slave],
                       calls |-> planned])]

\* _sync on a resolvable slave whose k-th call (move or set_permissions)
\* raises: the calls before it have taken effect, the k-th has not, and the
\* exception leaves _sync.  The calls issued, the raising one last, are
\* logged.
SyncFails(st, before, after, link, k) ==
    LET planned == SyncCalls(before, after, link, st.mk)
        chs == ApplyCalls(st.chs, SubSeq(planned, 1, k - 1))
    IN [st EXCEPT !.chs = chs,
                  !.calls = st.calls \o SubSeq(planned, 1, k),
                  !.syncs = Append(st.syncs,
                      [link |-> link, before |-> before, after |-> after,
                       teachers |-> TeacherIds(st.mk, link),
                       pre |-> st.chs[link.slave], post |-> chs[link.slave],
                       calls |-> SubSeq(planned, 1, k)])]

\* The k-th call of _sync exists.
CanFail(st, before, after, link, k) ==
    /\ st.chs[link.slave].exists
    /\ k \in 1..Len(SyncCalls(before, after, link, st.mk))

\* teacherchannel set <master> <slave>, a call of the first sync raising: the
\* row is committed by add_channel, no reply is sent.
teacherchannel_set_fails(master, slave, k) ==
    /\ steps < MaxFailures
    /\ channels[master].exists /\ channels[slave].exists
    /\ GetRows(links, master) = {}
    /\ ~InsertRejected(links, master, slave)
    /\ LET link == [master |-> master, slave |-> slave]
           added == [Here EXCEPT !.lk = links \cup {link}]
       IN /\ CanFail(added, channels[slave], channels[master], link, k)
          /\ LET st == SyncFails(added, channels[slave], channels[master], link, k)
             IN Commit(st, Result("set", master, slave, "-", "HTTPException", st))
    /\ UNCHANGED reconciled

\* on_guild_channel_update of a master, a call of the sync raising.
on_guild_channel_update_fails(ch, after, k) ==
    /\ steps < MaxFailures
    /\ channels[ch].exists
    /\ ch \in TextIds
    /\ \E link \in GetRows(links, ch) :
          /\ GetRows(links, ch) = {link}
          /\ ch # link.slave
          /\ LET st0 == State([channels EXCEPT ![ch] = after], links, marks)
             IN /\ CanFail(st0, channels[ch], after, link, k)
                /\ LET st == SyncFails(st0, channels[ch], after, link, k)
                   IN Commit(st, Result("update", ch, 0, "-", "HTTPException", st))
    /\ UNCHANGED reconciled

\* load_deltas, a call of the sync of the j-th link raising: the exception
\* leaves the loop and the task.
load_deltas_fails(j, k) ==
    /\ steps < MaxFailures
    /\ ~reconciled
    /\ \E todo \in Orders(links) :
          /\ j \in DOMAIN todo
          /\ LET done == ReconcileAll(Here, SubSeq(todo, 1, j - 1))
                 link == todo[j]
                 master == done.chs[link.master]
                 slave == done.chs[link.slave]
             IN /\ link \in done.lk
                /\ master.exists /\ slave.exists
                /\ CanFail(done, slave, master, link, k)
                /\ LET st == SyncFails(done, slave, master, link, k)
                   IN Commit(st, Result("load_deltas", 0, 0, "-", "HTTPException", st))
    /\ reconciled' = TRUE

Link31 == [master |-> 3, slave |-> 1]

\* Three text channels with unequal overwrites; no link, the link 1 -> 2, or
\* the links 1 -> 2 and 3 -> 1 (teacherchannel set 1 2, teacherchannel set
\* 3 1); the link 1 -> 2 has no teacher or the teacher m1.
InitFail ==
    /\ \E a \in Snapshots, b \in {Fresh, [Fresh EXCEPT !.overwrites["m1"] = "deny"]} :
          channels = [c \in ChannelIds |->
                         IF c = 1 THEN a
                         ELSE IF c = 2 THEN b
                         ELSE IF c = 3 THEN [Fresh EXCEPT !.overwrites["m2"] = "deny"]
                         ELSE Gone]
    /\ links \in {{}, {Link12}, {Link12, Link31}}
    /\ marks \in SUBSET {[user |-> "m1", slave |-> 2]}
    /\ links = {} => marks = {}
    /\ reconciled = FALSE
    /\ last = NoResult
    /\ steps = 0
    /\ NoneSuspended /\ NothingElse

MaxCalls == 1 + Cardinality(Targets) * 2

NextFail ==
    \/ \E m, s \in TextIds, k \in 1..MaxCalls : teacherchannel_set_fails(m, s, k)
    \/ \E c \in TextIds, k \in 1..MaxCalls : \E a \in SingleEdits(channels[c]) :
          on_guild_channel_update_fails(c, a, k)
    \/ \E j \in 1..2, k \in 1..MaxCalls : load_deltas_fails(j, k)

SpecFail == InitFail /\ [][NextFail]_vars

\* --------------------------------------------------------------- C13
IsPrefix(p, q) == Len(p) <= Len(q) /\ p = SubSeq(q, 1, Len(p))

\* The links the handler did not reach.
Unvisited(res) == links \ (PrunedLinks(res) \cup SyncedLinks(res))

C13_Step ==
    (steps' = steps + 1 /\ last'.reply = "HTTPException") =>
        LET e == last'.syncs[Len(last'.syncs)]
            planned == SyncCalls(e.before, e.after, e.link, marks)
            made == SubSeq(e.calls, 1, Len(e.calls) - 1)
        IN /\ last'.syncs # <<>> /\ e.calls # <<>>
           \* no later change of that sync is attempted
           /\ IsPrefix(e.calls, planned)
           /\ e.post = ApplyCalls([channels EXCEPT ![e.link.slave] = e.pre], made)[e.link.slave]
           /\ channels'[e.link.slave] = e.post
           \* the link and its teacher marks are retained
           /\ e.link \in links'
           /\ e.link \notin PrunedLinks(last')
           /\ TeacherIds(marks', e.link) = TeacherIds(marks, e.link)
           \* the pass ends: the links it had not reached stay as they were
           /\ last'.op = "load_deltas" =>
                 \A l \in Unvisited(last') :
                     /\ l \in links'
                     /\ TeacherIds(marks', l) = TeacherIds(marks, l)
                     /\ \A i \in DOMAIN last'.calls : last'.calls[i].ch # l.slave

\* C13: when a move or set_permissions call raises during _sync, no later
\* call of that sync is issued, the calls before it stay applied, the link and
\* its teacher marks are retained, and a reconciliation pass ends there, the
\* links it had not reached staying unvisited.
C13_ApplyFailure == [][C13_Step]_vars

\* The reconciliation pass failed at the first of two calls of a link's sync
\* while another link was still to be visited.
C13_Witness ==
    /\ last.op = "load_deltas" /\ last.reply = "HTTPException"
    /\ Len(last.syncs) = 1
    /\ Len(last.syncs[1].calls) = 1
    /\ Len(SyncCalls(last.syncs[1].before, last.syncs[1].after,
                     last.syncs[1].link, marks)) >= 2
    /\ \E l \in links : l \notin PrunedLinks(last) \cup SyncedLinks(last)

\* ===================================================== the review cog
\* src/review/module.py, src/review/database.py, src/review/objects.py.
\* A command handler runs without interleaving; the answer of a confirmation
\* view is an input of the handler.

\* Members of the guild who write reviews and vote.
Users == {"m1", "m2", "m3"}

\* SubjectReview and TeacherReview, with their vote tables.
ReviewKinds == {"subject", "teacher"}

\* What a command names: subject abbreviation or teacher school id.  1 is in
\* the dataset, 2 is not.
EntityIds == {1, 2}

NoReview == 0

\* SubjectReview.get_member_review / TeacherReview.get_member_review
MemberReview(rv, kind, author, entity) ==
    {r \in rv : r.kind = kind /\ r.author = author /\ r.entity = entity}

\* SubjectReview.get_by_idx / TeacherReview.get_by_idx
ByIdx(rv, kind, idx) == {r \in rv : r.kind = kind /\ r.idx = idx}

\* The vote rows of a review.
Relevance(vt, kind, idx) == {v \in vt : v.kind = kind /\ v.review = idx}

\* SubjectRelevance.reset / TeacherRelevance.reset
Reset(vt, kind, idx) == vt \ Relevance(vt, kind, idx)

\* upvotes / downvotes: column_property counting the vote rows by value.
Upvotes(vt, r) == Cardinality({v \in Relevance(vt, r.kind, r.idx) : v.vote})
Downvotes(vt, r) == Cardinality({v \in Relevance(vt, r.kind, r.idx) : ~v.vote})

\* Mutant of ResetDue: the votes are reset from the 30th day on.
ResetDue_From30(td, review) == td - review.updated >= 30

\* (date.today() - self.updated) > timedelta(days=30)
ResetDue(td, review) == td - review.updated > 30

\* Mutant of Edited: the row is written anew, its creation date included.
Edited_Recreated(td, review, grade, anonym, text) ==
    [review EXCEPT !.grade = grade, !.anonym = anonym, !.text = text,
                   !.updated = td, !.created = td]

\* The row after edit().
Edited(td, review, grade, anonym, text) ==
    [review EXCEPT !.grade = grade, !.anonym = anonym, !.text = text,
                   !.updated = td]

\* SubjectReview.edit / TeacherReview.edit: the database after each
\* session.commit() of the call, in order; the commit of reset() carries the
\* number of rows it deleted.
Edit(rv, vt, td, review, grade, anonym, text) ==
    LET due == ResetDue(td, review)
        kept == IF due THEN Reset(vt, review.kind, review.idx) ELSE vt
    IN (IF due
        THEN <<[reviews |-> rv, votes |-> kept,
                deleted |-> Cardinality(Relevance(vt, review.kind, review.idx))]>>
        ELSE <<>>)
       \o <<[reviews |-> (rv \ {review}) \cup {Edited(td, review, grade, anonym, text)},
             votes |-> kept]>>

\* SubjectReview.add / TeacherReview.add: the new row; idx is the next value
\* of the table's sequence.
Added(sr, td, kind, author, entity, grade, anonym, text) ==
    [idx |-> sr[kind] + 1, kind |-> kind, author |-> author, entity |-> entity,
     grade |-> grade, anonym |-> anonym, text |-> text,
     created |-> td, updated |-> td]

\* Mutant of Vote: a vote is inserted without looking for the voter's row.
Vote_Inserts(vt, kind, idx, voter, v) ==
    IF v = "none" THEN vt
    ELSE vt \cup {[kind |-> kind, review |-> idx, voter |-> voter, vote |-> (v = "up")]}

\* SubjectReview.vote / TeacherReview.vote; v is "up" (True), "down" (False)
\* or "none" (None).
Vote(vt, kind, idx, voter, v) ==
    LET mine == {x \in Relevance(vt, kind, idx) : x.voter = voter}
    IN IF v = "none" THEN vt \ mine
       ELSE (vt \ mine) \cup
            {[kind |-> kind, review |-> idx, voter |-> voter, vote |-> (v = "up")]}

\* The votes passed to vote(), the latest of each voter on each review.
Noted(cs, kind, idx, voter, v) ==
    {c \in cs : ~(c.kind = kind /\ c.review = idx /\ c.voter = voter)}
        \cup {[kind |-> kind, review |-> idx, voter |-> voter, vote |-> v]}

Forgotten(cs, kind, idx) == {c \in cs : ~(c.kind = kind /\ c.review = idx)}

\* What a handler of the review cog did: its reply, the review it returned,
\* the database after each commit, the listing it showed and the value its
\* confirmation view returned ("none": it showed no view).
Did(op, kind, who, entity, reply, ret, commits, listing) ==
    [op |-> op, kind |-> kind, who |-> who, entity |-> entity, reply |-> reply,
     ret |-> ret, commits |-> commits, listing |-> listing, asked |-> "none"]

\* The handler showed a ConfirmView and got this value.
Asked(res, answer) == [res EXCEPT !.asked = answer]

ReviewCommit(rv, vt, sr, cs, res) ==
    /\ reviews' = rv
    /\ votes' = vt
    /\ serial' = sr
    /\ cast' = cs
    /\ last' = res
    /\ steps' = steps + 1
    /\ UNCHANGED <<dataset, today, roles, extensions, school, channels, links, marks, reconciled, syncing>>

Refused(op, kind, who, entity, reply) ==
    ReviewCommit(reviews, votes, serial, cast,
                 Did(op, kind, who, entity, reply, NoReview, <<>>, <<>>))

\* review subject add / add-anonymous, review teacher add / add-anonymous
\* (_add_subject_review, _add_teacher_review).
review_add(kind, author, anonymous, entity, grade, text) ==
    LET mine == MemberReview(reviews, kind, author, entity)
    IN CASE [kind |-> kind, id |-> entity] \notin dataset ->
              Refused("add", kind, author, entity, "not found")
         [] grade < 1 \/ grade > 5 ->
              Refused("add", kind, author, entity, "grade must be 1-5")
         [] text = "" ->
              Refused("add", kind, author, entity, "must contain text")
         [] mine # {} ->
              LET review == CHOOSE r \in mine : TRUE
                  commits == Edit(reviews, votes, today, review, grade, anonymous, text)
                  db == commits[Len(commits)]
              IN ReviewCommit(db.reviews, db.votes, serial,
                     IF ResetDue(today, review)
                         THEN Forgotten(cast, kind, review.idx) ELSE cast,
                     Did("add", kind, author, entity, "added", review.idx, commits, <<>>))
         [] OTHER ->
              LET review == Added(serial, today, kind, author, entity, grade, anonymous, text)
                  rv == reviews \cup {review}
              IN ReviewCommit(rv, votes, [serial EXCEPT ![kind] = review.idx], cast,
                     Did("add", kind, author, entity, "added", review.idx,
                         <<[reviews |-> rv, votes |-> votes]>>, <<>>))

\* delete() of a review: the row and, by the cascade of the relevance
\* relationship, its votes.
Deleted(review) ==
    [reviews |-> reviews \ {review},
     votes |-> Reset(votes, review.kind, review.idx)]

\* The three outcomes of ConfirmView.send(): None, True, False.
Answers == {"timeout", "yes", "no"}

\* The handler ends after the view without touching the database.
Unconfirmed(op, kind, who, entity, answer, reply) ==
    ReviewCommit(reviews, votes, serial, cast,
                 Asked(Did(op, kind, who, entity, reply, NoReview, <<>>, <<>>),
                       answer))

\* Mutant of ConfirmedRemove: only a declined view keeps the review.
ConfirmedRemove_UnlessDeclined(op, who, review, answer, done) ==
    IF answer = "no"
    THEN Unconfirmed(op, review.kind, who, review.entity, answer, "aborted")
    ELSE LET db == Deleted(review)
         IN ReviewCommit(db.reviews, db.votes, serial,
                Forgotten(cast, review.kind, review.idx),
                Asked(Did(op, review.kind, who, review.entity, done,
                          review.idx, <<db>>, <<>>), answer))

\* The branch on the value of the confirmation view, for the review found.
ConfirmedRemove(op, who, review, answer, done) ==
    CASE answer = "timeout" ->
           Unconfirmed(op, review.kind, who, review.entity, answer, "timed out")
      [] answer = "yes" ->
           LET db == Deleted(review)
           IN ReviewCommit(db.reviews, db.votes, serial,
                  Forgotten(cast, review.kind, review.idx),
                  Asked(Did(op, review.kind, who, review.entity, done,
                            review.idx, <<db>>, <<>>), answer))
      [] OTHER ->
           Unconfirmed(op, review.kind, who, review.entity, answer, "aborted")

\* review subject remove / review teacher remove
review_remove(kind, author, entity, answer) ==
    LET mine == MemberReview(reviews, kind, author, entity)
    IN CASE [kind |-> kind, id |-> entity] \notin dataset ->
              Refused("remove", kind, author, entity, "not found")
         [] mine = {} -> Refused("remove", kind, author, entity, "no review")
         [] OTHER -> ConfirmedRemove("remove", author, CHOOSE r \in mine : TRUE,
                                     answer, "removed")

\* review subject sudo remove / review teacher sudo remove
review_sudo_remove(kind, mod, idx, answer) ==
    LET found == ByIdx(reviews, kind, idx)
    IN IF found = {} THEN Refused("sudo remove", kind, mod, idx, "no review")
       ELSE ConfirmedRemove("sudo remove", mod, CHOOSE r \in found : TRUE,
                            answer, "sudo removed")

\* Mutant of review_vote: _is_author is not asked.
review_vote_AuthorToo(kind, idx, voter, v, permitted) ==
    /\ ByIdx(reviews, kind, idx) # {}
    /\ LET review == CHOOSE r \in ByIdx(reviews, kind, idx) : TRUE
       IN IF ~permitted
          THEN Refused("vote", kind, voter, review.entity, "no permission")
          ELSE LET vt == Vote(votes, kind, idx, voter, v)
               IN ReviewCommit(reviews, vt, serial, Noted(cast, kind, idx, voter, v),
                      Did("vote", kind, voter, review.entity, v, idx,
                          <<[reviews |-> reviews, votes |-> vt]>>, <<>>))

\* ReviewEmbed.vote_up / vote_neutral / vote_down on the embed of an existing
\* review; permitted is the result of pie.acl.can_invoke_command.
review_vote(kind, idx, voter, v, permitted) ==
    /\ ByIdx(reviews, kind, idx) # {}
    /\ LET review == CHOOSE r \in ByIdx(reviews, kind, idx) : TRUE
       IN CASE review.author = voter ->
                 Refused("vote", kind, voter, review.entity, "own review")
            [] ~permitted ->
                 Refused("vote", kind, voter, review.entity, "no permission")
            [] OTHER ->
                 LET vt == Vote(votes, kind, idx, voter, v)
                 IN ReviewCommit(reviews, vt, serial, Noted(cast, kind, idx, voter, v),
                        Did("vote", kind, voter, review.entity, v, idx,
                            <<[reviews |-> reviews, votes |-> vt]>>, <<>>))

\* The calendar day changes.
DayPasses(d) ==
    /\ today' = today + d
    /\ UNCHANGED <<dataset, reviews, votes, serial, cast, last, steps, roles, extensions, school,
                   channels, links, marks, reconciled, syncing>>

\* ------------------------------------------- adding and removing reviews

\* Bounds of SpecReview: commands given, and days that pass.
MaxReviewSteps == 3
LastDay == 1

\* No channel is linked: the teacher-channel cog holds nothing.
NoChannels ==
    /\ channels = [c \in ChannelIds |-> Gone]
    /\ links = {} /\ marks = {}
    /\ reconciled = FALSE
    /\ syncing = <<>>

NoDeed == Did("init", "-", "-", 0, "-", NoReview, <<>>, <<>>)

\* The dataset holds subject 1 and teacher 1; nothing is reviewed yet.
InitReview ==
    /\ dataset = {[kind |-> k, id |-> 1] : k \in ReviewKinds}
    /\ reviews = {} /\ votes = {}
    /\ serial = [k \in ReviewKinds |-> 0]
    /\ today = 0
    /\ cast = {}
    /\ roles = [m \in Members |-> {}]
    /\ extensions = ReviewExtensions
    /\ school = NoSchool
    /\ last = NoDeed
    /\ steps = 0
    /\ NoChannels

\* Arguments of review add: two valid ones, an unknown subject or teacher, a
\* grade out of range, an empty text.
AddInputs ==
    {[entity |-> 1, grade |-> 1, text |-> "good"],
     [entity |-> 1, grade |-> 5, text |-> "bad"],
     [entity |-> 2, grade |-> 1, text |-> "good"],
     [entity |-> 1, grade |-> 6, text |-> "good"],
     [entity |-> 1, grade |-> 0, text |-> "good"],
     [entity |-> 1, grade |-> 1, text |-> ""]}

NextReview ==
    \/ \E k \in ReviewKinds, a \in {"m1", "m2"}, anon \in BOOLEAN, i \in AddInputs :
          steps < MaxReviewSteps /\ review_add(k, a, anon, i.entity, i.grade, i.text)
    \/ \E k \in ReviewKinds, a \in {"m1", "m2"}, e \in EntityIds, ans \in Answers :
          steps < MaxReviewSteps /\ review_remove(k, a, e, ans)
    \/ \E k \in ReviewKinds, i \in 1..2, ans \in Answers :
          steps < MaxReviewSteps /\ review_sudo_remove(k, "m3", i, ans)
    \/ today < LastDay /\ DayPasses(1)

SpecReview == InitReview /\ [][NextReview]_vars

\* --------------------------------------------------------------- C14
\* At most one review per author and subject, and per author and teacher.
OnePerAuthor ==
    \A r, q \in reviews :
        (r.kind = q.kind /\ r.author = q.author /\ r.entity = q.entity) => r = q

\* An add by an author who has a review of the entity changes that row and
\* keeps its idx and its creation date; no row is added.
C14_Step ==
    (steps' = steps + 1 /\ last'.op = "add" /\ last'.reply = "added") =>
        \A r \in MemberReview(reviews, last'.kind, last'.who, last'.entity) :
            \E q \in reviews' :
                /\ q.idx = r.idx /\ q.created = r.created
                /\ q.author = r.author /\ q.entity = r.entity /\ q.kind = r.kind
                /\ q.updated = today
                /\ reviews' \ {q} = reviews \ {r}
                /\ last'.ret = r.idx

\* C14: after any sequence of review add, add-anonymous and remove commands
\* at most one review exists per author and entity, and an add by an author
\* who already has a review of the entity updates that row in place (same
\* idx, same created date).
C14_OneReviewPerAuthor == []OnePerAuthor /\ [][C14_Step]_vars

\* A review was edited on a later day than it was created, next to a review
\* by another author of the same entity.
C14_Witness ==
    /\ last.op = "add" /\ last.reply = "added"
    /\ \E r, q \in reviews :
          /\ r.idx = last.ret /\ r.kind = last.kind
          /\ r.updated > r.created
          /\ q.kind = r.kind /\ q.entity = r.entity /\ q.author # r.author

\* ------------------------------------------------- editing an old review

\* Bounds of SpecEdit: commands and votes given, and the last day.  The days
\* 1 to 28, on which no reset is due, pass at once.
MaxEdits == 2
Horizon == 32

\* The vote rows for what was passed to vote().
Counted(cs) ==
    {[kind |-> c.kind, review |-> c.review, voter |-> c.voter, vote |-> (c.vote = "up")] :
        c \in {x \in cs : x.vote # "none"}}

\* On day 0 m1 has reviewed subject 1 and teacher 1, and m2 and m3 have voted
\* on the subject review or not.
InitEdit ==
    /\ dataset = {[kind |-> k, id |-> 1] : k \in ReviewKinds}
    /\ serial = [k \in ReviewKinds |-> 1]
    /\ today = 0
    /\ reviews = {Added([j \in ReviewKinds |-> 0], 0, k, "m1", 1, 1, FALSE, "good") :
                     k \in ReviewKinds}
    /\ \E f \in [{"m2", "m3"} -> {"up", "down", "none"}] :
          cast = {[kind |-> "subject", review |-> 1, voter |-> u, vote |-> f[u]] :
                     u \in {"m2", "m3"}}
    /\ votes = Counted(cast)
    /\ roles = [m \in Members |-> {}]
    /\ extensions = ReviewExtensions
    /\ school = NoSchool
    /\ last = NoDeed
    /\ steps = 0
    /\ NoChannels

NextEdit ==
    \/ \E k \in ReviewKinds, anon \in BOOLEAN, i \in AddInputs :
          steps < MaxEdits /\ review_add(k, "m1", anon, i.entity, i.grade, i.text)
    \/ \E k \in ReviewKinds, u \in {"m2", "m3"}, v \in {"up", "down", "none"} :
          steps < MaxEdits /\ review_vote(k, 1, u, v, TRUE)
    \/ today = 0 /\ DayPasses(29)
    \/ today >= 29 /\ today < Horizon /\ DayPasses(1)

SpecEdit == InitEdit /\ [][NextEdit]_vars

\* --------------------------------------------------------------- C15
\* The handler edits an existing review.
EditStep ==
    /\ steps' = steps + 1
    /\ last'.op = "add" /\ last'.reply = "added"
    /\ MemberReview(reviews, last'.kind, last'.who, last'.entity) # {}

\* The votes of the review are deleted by a commit of their own, which shows
\* the review with its old values; the votes of other reviews stay.
VotesReset(r) ==
    /\ Relevance(votes', r.kind, r.idx) = {}
    /\ votes' = Reset(votes, r.kind, r.idx)
    /\ Len(last'.commits) = 2
    /\ last'.commits[1].reviews = reviews
    /\ Relevance(last'.commits[1].votes, r.kind, r.idx) = {}
    /\ r \notin last'.commits[2].reviews

VotesKept == votes' = votes /\ Len(last'.commits) = 1

\* C15 as stated: the votes are reset when the last update is 30 or more
\* days old and kept when it is fewer than 30 days old.
C15_Stated_Step ==
    EditStep =>
        \A r \in MemberReview(reviews, last'.kind, last'.who, last'.entity) :
            /\ today - r.updated >= 30 => VotesReset(r)
            /\ today - r.updated < 30 => VotesKept

C15_ResetFrom30Days == [][C15_Stated_Step]_vars

C15_Step ==
    EditStep =>
        \A r \in MemberReview(reviews, last'.kind, last'.who, last'.entity) :
            /\ today - r.updated > 30 => VotesReset(r)
            /\ today - r.updated <= 30 => VotesKept

\* C15: editing a review whose last update is more than 30 days before today
\* (31 or more) deletes every vote of that review, in a commit that precedes
\* the one with the new grade, text and anonym values; editing a review
\* updated 30 or fewer days ago leaves all votes unchanged.
C15_ResetAfter30Days == [][C15_Step]_vars

\* A review with votes was edited on the 31st day after its last update and
\* its votes are gone.
C15_Witness ==
    /\ last.op = "add" /\ last.reply = "added"
    /\ Len(last.commits) = 2
    /\ last.commits[1].deleted >= 1
    /\ \E r \in reviews :
          /\ r.idx = last.ret /\ r.kind = last.kind
          /\ r.updated = today /\ today - r.created = 31
          /\ Relevance(votes, r.kind, r.idx) = {}

\* --------------------------------------------------- listing the reviews

\* Bound of SpecList: listings shown from each initial state.
MaxListings == 1

\* upvotes - downvotes
Net(vt, r) == Upvotes(vt, r) - Downvotes(vt, r)

\* order_by(upvotes - downvotes, updated.desc()): the first key ascending
\* (the default), the second descending.
ListedBefore(vt, a, b) ==
    \/ Net(vt, a) < Net(vt, b)
    \/ Net(vt, a) = Net(vt, b) /\ a.updated >= b.updated

\* SubjectReview.get_all_by_subject / TeacherReview.get_all_by_teacher: the
\* lists the query can return; rows equal in both keys come in any order.
GetAllBy(rv, vt, kind, entity) ==
    LET found == {r \in rv : r.kind = kind /\ r.entity = entity}
    IN {f \in Orders(found) :
           \A i, j \in DOMAIN f : i < j => ListedBefore(vt, f[i], f[j])}

\* review subject list / review teacher list
review_list(kind, who, entity) ==
    IF [kind |-> kind, id |-> entity] \notin dataset
    THEN Refused("list", kind, who, entity, "not found")
    ELSE IF GetAllBy(reviews, votes, kind, entity) = {<<>>}
    THEN Refused("list", kind, who, entity, "no reviews")
    ELSE \E f \in GetAllBy(reviews, votes, kind, entity) :
            ReviewCommit(reviews, votes, serial, cast,
                Did("list", kind, who, entity, "listed", NoReview, <<>>, f))

\* m1, m2 and m3 reviewed subject 1 on day 0 and edited their reviews on the
\* days 1 to 3; each has voted on the reviews of the two others or not.
InitList ==
    /\ dataset = {[kind |-> k, id |-> 1] : k \in ReviewKinds}
    /\ serial = [k \in ReviewKinds |-> IF k = "subject" THEN 3 ELSE 0]
    /\ today = 3
    /\ \E day \in [1..3 -> 1..3] :
          reviews = {[idx |-> i, kind |-> "subject",
                      author |-> <<"m1", "m2", "m3">>[i], entity |-> 1,
                      grade |-> 1, anonym |-> FALSE, text |-> "good",
                      created |-> 0, updated |-> day[i]] : i \in 1..3}
    /\ \E f \in [{p \in (1..3) \X Users : <<"m1", "m2", "m3">>[p[1]] # p[2]}
                    -> {"up", "down", "none"}] :
          cast = {[kind |-> "subject", review |-> p[1], voter |-> p[2], vote |-> f[p]] :
                     p \in DOMAIN f}
    /\ votes = Counted(cast)
    /\ roles = [m \in Members |-> {}]
    /\ extensions = ReviewExtensions
    /\ school = NoSchool
    /\ last = NoDeed
    /\ steps = 0
    /\ NoChannels

NextList ==
    \E k \in ReviewKinds, e \in EntityIds :
        steps < MaxListings /\ review_list(k, "m1", e)

SpecList == InitList /\ [][NextList]_vars

\* --------------------------------------------------------------- C16
\* C16: the reviews listed for a subject or a teacher are ordered by net
\* score (upvotes minus downvotes) descending and, among equal net scores,
\* by last-update date descending.
C16_ListingOrder ==
    last.op = "list" =>
        \A i, j \in DOMAIN last.listing :
            i < j =>
                \/ Net(votes, last.listing[i]) > Net(votes, last.listing[j])
                \/ /\ Net(votes, last.listing[i]) = Net(votes, last.listing[j])
                   /\ last.listing[i].updated >= last.listing[j].updated

\* ------------------------------------------------------ voting on reviews

\* Bound of SpecVotes: votes given.
MaxVotes == 3

\* m1 has reviewed subject 1 and m2 teacher 1; nobody has voted.
InitVotes ==
    /\ dataset = {[kind |-> k, id |-> 1] : k \in ReviewKinds}
    /\ serial = [k \in ReviewKinds |-> 1]
    /\ today = 0
    /\ reviews = {Added([j \in ReviewKinds |-> 0], 0, "subject", "m1", 1, 1, FALSE, "good"),
                  Added([j \in ReviewKinds |-> 0], 0, "teacher", "m2", 1, 5, TRUE, "bad")}
    /\ votes = {} /\ cast = {}
    /\ roles = [m \in Members |-> {}]
    /\ extensions = ReviewExtensions
    /\ school = NoSchool
    /\ last = NoDeed
    /\ steps = 0
    /\ NoChannels

NextVotes ==
    \E k \in ReviewKinds, u \in Users, v \in {"up", "down", "none"}, ok \in BOOLEAN :
        steps < MaxVotes /\ review_vote(k, 1, u, v, ok)

SpecVotes == InitVotes /\ [][NextVotes]_vars

\* --------------------------------------------------------------- C17
\* The latest vote the user passed to vote() of the review, if any.
LatestVote(r, u) ==
    {c.vote : c \in {x \in cast : x.kind = r.kind /\ x.review = r.idx /\ x.voter = u}}

\* C17: after any sequence of up, down and neutral votes there is at most one
\* vote record per review and voter, it holds the voter's most recent vote,
\* there is none when that vote was neutral, and the review's upvotes and
\* downvotes are the numbers of voters whose record is true and false.
C17_VoteTally ==
    \A r \in reviews :
        /\ \A u \in Users :
              LET rows == {v \in Relevance(votes, r.kind, r.idx) : v.voter = u}
              IN /\ Cardinality(rows) <= 1
                 /\ LatestVote(r, u) \subseteq {"none"} => rows = {}
                 /\ LatestVote(r, u) = {"up"} => \A v \in rows : v.vote
                 /\ LatestVote(r, u) = {"down"} => \A v \in rows : ~v.vote
                 /\ LatestVote(r, u) \cap {"up", "down"} # {} => rows # {}
        /\ Upvotes(votes, r) = Cardinality({u \in Users : LatestVote(r, u) = {"up"}})
        /\ Downvotes(votes, r) = Cardinality({u \in Users : LatestVote(r, u) = {"down"}})

\* A voter has changed an upvote to a downvote, or withdrawn a vote, while
\* the vote of another voter on the same review stands.
C17_Witness ==
    /\ steps = MaxVotes
    /\ last.op = "vote" /\ last.reply \in {"down", "none"}
    /\ \E r \in reviews :
          /\ r.kind = last.kind /\ r.idx = last.ret
          /\ Upvotes(votes, r) = 1
          /\ \A v \in Relevance(votes, r.kind, r.idx) : v.vote => v.voter # last.who
          /\ Cardinality({u \in Users : LatestVote(r, u) # {}}) = 2

\* ------------------------------------------------- the semester_reset cog

\* Bound of SpecReset: commands given.
MaxResets == 2

\* ctx.guild.roles, lowest first; the first one is the default role, which
\* every member has and which cannot be taken away.
RoleOrder == <<"everyone", "r1", "r2", "r3">>
RoleNames == {RoleOrder[i] : i \in DOMAIN RoleOrder}

\* role_reset, lines 16-33: the loop that looks for the two roles.  It stops
\* at the second of them it meets; with highest_role = lowest_role only the
\* first branch is ever taken and found_highest stays False.
RECURSIVE FindRoles(_, _, _, _)
FindRoles(idx, highest, lowest, f) ==
    IF idx > Len(RoleOrder) THEN f
    ELSE IF RoleOrder[idx] = lowest
    THEN LET g == [f EXCEPT !.found_lowest = TRUE, !.low_idx = idx]
         IN  IF f.found_highest THEN g
             ELSE FindRoles(idx + 1, highest, lowest, g)
    ELSE IF RoleOrder[idx] = highest
    THEN LET g == [f EXCEPT !.found_highest = TRUE, !.high_idx = idx]
         IN  IF f.found_lowest THEN [g EXCEPT !.correct_order = TRUE]
             ELSE FindRoles(idx + 1, highest, lowest, g)
    ELSE FindRoles(idx + 1, highest, lowest, f)

NotFound == [found_lowest |-> FALSE, found_highest |-> FALSE,
             correct_order |-> FALSE, low_idx |-> 0, high_idx |-> 0]

\* role_reset, lines 37-40: all_roles[low_idx : high_idx + 1], or
\* all_roles[high_idx : low_idx + 1] (indexes from 1 here).
RoleSlice(f) ==
    IF f.correct_order
    THEN {RoleOrder[i] : i \in f.low_idx .. f.high_idx}
    ELSE {RoleOrder[i] : i \in f.high_idx .. f.low_idx}

\* What a reset command did: its last message and the numbers in it, the
\* messages it sent before (a confirmation view would be one of them), and
\* the removals the platform carried out.
Swept(op, reply, counts, sent, calls) ==
    [op |-> op, reply |-> reply, counts |-> counts, sent |-> sent,
     calls |-> calls, args |-> <<>>, denied |-> {}]

\* The role arguments the command was given, and the members whose roles
\* and overwrites the platform refused to change while it ran.
Given(res, args, denied) == [res EXCEPT !.args = args, !.denied = denied]

\* member.remove_roles(role) raises for the default role and for a member
\* the bot may not manage; role_reset catches it and reports it.
RemoveFails(role, member, denied) == role = "everyone" \/ member \in denied

\* role-reset (lines 9-66).  Each role of the slice is taken from each of
\* its members; success counts the attempts, failed ones included.
role_reset(highest, lowest, denied) ==
    LET f == FindRoles(1, highest, lowest, NotFound)
        slice == RoleSlice(f)
        tries == {<<r, m>> \in slice \X Members : r \in roles[m]}
        done == {c \in tries : ~RemoveFails(c[1], c[2], denied)}
    IN  /\ steps < MaxResets
        /\ IF ~f.found_lowest \/ ~f.found_highest
           THEN /\ roles' = roles
                /\ last' = Given(Swept("role_reset", "cannot find", <<>>, <<>>, {}),
                                 <<highest, lowest>>, denied)
           ELSE /\ roles' = [m \in Members |->
                               roles[m] \ {r \in slice : <<r, m>> \in done}]
                /\ last' = Given(Swept("role_reset", "done",
                                 <<Cardinality(slice), Cardinality(tries)>>,
                                 [i \in 1 .. Cardinality(tries \ done)
                                    |-> "cannot remove"],
                                 done),
                                 <<highest, lowest>>, denied)
        /\ steps' = steps + 1
        /\ UNCHANGED <<channels, links, marks, reconciled, syncing, reviewVars,
                       extensions, school>>

\* Names a category of the guild can have; "nocat" is channel.category None,
\* which is no member of guild.categories.
CategoryNames == Categories \ {"nocat"}

\* category.channels of the categories whose name is in the argument.
InCategories(names) ==
    {c \in ChannelIds : channels[c].exists /\ channels[c].category \in names}

\* channels_reset (lines 68-117); given is FALSE for the command without an
\* argument (categories=None).
\* Every overwrite target of the model is a member, so the isinstance test of
\* line 88 lets all of them through; set_permissions(target, overwrite=None)
\* can raise, which is caught and reported.
channels_reset(given, categories, denied) ==
    /\ steps < MaxResets
    /\ IF ~given
       THEN /\ channels' = channels
            /\ last' = Swept("channels_reset", "usage", <<>>, <<>>, {})
       ELSE LET visited == InCategories(categories \cap CategoryNames)
                tries == {<<c, t>> \in visited \X Targets :
                             channels[c].overwrites[t] # NoOw}
                done == {x \in tries : x[2] \notin denied}
            IN  /\ channels' =
                      [c \in ChannelIds |->
                         [channels[c] EXCEPT !.overwrites =
                            [t \in Targets |->
                               IF <<c, t>> \in done THEN NoOw
                               ELSE channels[c].overwrites[t]]]]
                /\ last' = Given(Swept("channels_reset", "done",
                                 <<Cardinality(visited)>>,
                                 [i \in 1 .. Cardinality(tries \ done)
                                    |-> "could not delete"],
                                 done),
                                 <<>>, denied)
    /\ steps' = steps + 1
    /\ UNCHANGED <<links, marks, reconciled, syncing, reviewVars, roles, extensions, school>>

\* Members with any roles; channel 1 in a category with any overwrites,
\* channel 2 outside of the categories with one.
InitReset ==
    /\ roles \in [Members -> {rs \in SUBSET RoleNames : "everyone" \in rs}]
    /\ extensions = NoExtensions
    /\ school = NoSchool
    /\ \E ow \in OwMaps :
          channels = [c \in ChannelIds |->
                        IF c = 1
                        THEN [exists |-> TRUE, category |-> "cat1",
                              overwrites |-> ow]
                        ELSE IF c = 2
                        THEN [Fresh EXCEPT !.overwrites["m1"] = "rw"]
                        ELSE Gone]
    /\ links = {} /\ marks = {}
    /\ reconciled = FALSE
    /\ NoneSuspended
    /\ dataset = {} /\ reviews = {} /\ votes = {}
    /\ serial = [k \in {"subject", "teacher"} |-> 0]
    /\ today = 0
    /\ cast = {}
    /\ last = Swept("init", "-", <<>>, <<>>, {})
    /\ steps = 0

\* The members the platform refuses to change: nobody, or m2.
Denials == {{}, {"m2"}}

NextReset ==
    \/ \E highest \in RoleNames, lowest \in RoleNames, denied \in Denials :
          role_reset(highest, lowest, denied)
    \/ \E given \in BOOLEAN, categories \in SUBSET {"cat1", "cat2"},
          denied \in Denials :
          channels_reset(given, categories, denied)

SpecReset == InitReset /\ [][NextReset]_vars

\* A reset took something away: a role from a member or an overwrite from a
\* channel.
TookAway ==
    \/ \E m \in Members : roles'[m] # roles[m]
    \/ \E c \in ChannelIds : channels'[c].overwrites # channels[c].overwrites

\* C18: role-reset removes no role and channels_reset removes no overwrite
\* unless a confirmation prompt was shown before and answered with yes.
C18_Step == TookAway => \E i \in DOMAIN last'.sent : last'.sent[i] = "confirmed"

C18_ConfirmationGated == [][C18_Step]_vars

\* ------------------------------------- deleting from the school dataset

\* Bound of SpecDelete: commands given.
MaxDeletes == 2

\* Degrees a program can have (DEGREE_MAPPING) and one that is none; the
\* programs of the model are Bachelor programs.
Degrees == {"B", "M", "D"}
DegreeInputs == {"B", "M", "X"}

\* The reviews the database deletes with a subject or a teacher
\* (ForeignKey(..., ondelete="CASCADE") of subject_id and teacher_id); a
\* program has no reviews.
ReviewsOf(rv, kind, id) == {r \in rv : r.kind = kind /\ r.entity = id}

\* The votes of the reviews in gone go with them (ondelete="CASCADE" of
\* review in the relevance tables).
WithoutVotesOf(vt, gone) ==
    {v \in vt : \A r \in gone : ~(v.kind = r.kind /\ v.review = r.idx)}

\* The part the three delete commands of the school cog share, for the row
\* found: the confirmation view, then delete() on True.
DatasetDelete(op, kind, mod, id, answer) ==
    LET row == [kind |-> kind, id |-> id]
        gone == ReviewsOf(reviews, kind, id)
        rv == reviews \ gone
        vt == WithoutVotesOf(votes, gone)
    IN  /\ steps' = steps + 1
        /\ UNCHANGED <<serial, today, roles, extensions, school, channels, links, marks, reconciled,
                       syncing>>
        /\ CASE answer = "timeout" ->
                  /\ last' = Asked(Did(op, kind, mod, id, "timed out", NoReview,
                                       <<>>, <<>>), answer)
                  /\ UNCHANGED <<dataset, reviews, votes, cast>>
             [] answer = "yes" ->
                  /\ dataset' = dataset \ {row}
                  /\ reviews' = rv
                  /\ votes' = vt
                  /\ cast' = {c \in cast : \A r \in gone :
                                 ~(c.kind = r.kind /\ c.review = r.idx)}
                  /\ last' = Asked(Did(op, kind, mod, id, "deleted", NoReview,
                                       <<[reviews |-> rv, votes |-> vt]>>, <<>>),
                                   answer)
             [] OTHER ->
                  /\ last' = Asked(Did(op, kind, mod, id, "aborted", NoReview,
                                       <<>>, <<>>), answer)
                  /\ UNCHANGED <<dataset, reviews, votes, cast>>

\* subject delete
subject_delete(mod, id, answer) ==
    IF [kind |-> "subject", id |-> id] \notin dataset
    THEN Refused("subject delete", "subject", mod, id, "not found")
    ELSE DatasetDelete("subject delete", "subject", mod, id, answer)

\* teacher delete
teacher_delete(mod, id, answer) ==
    IF [kind |-> "teacher", id |-> id] \notin dataset
    THEN Refused("teacher delete", "teacher", mod, id, "not found")
    ELSE DatasetDelete("teacher delete", "teacher", mod, id, answer)

\* program delete
program_delete(mod, degree, id, answer) ==
    CASE degree \notin Degrees ->
           Refused("program delete", "program", mod, id, "degree must be B, M or D")
      [] degree # "B" \/ [kind |-> "program", id |-> id] \notin dataset ->
           Refused("program delete", "program", mod, id, "not found")
      [] OTHER -> DatasetDelete("program delete", "program", mod, id, answer)

\* Reviews and votes the database can hold at the start: m1 and m2 reviewed
\* subject 1, m1 reviewed teacher 1; m3 and the authors voted.
SomeReview(kind, idx, author) ==
    Added([k \in ReviewKinds |-> idx - 1], 0, kind, author, 1, 1, FALSE, "good")

ReviewPool ==
    {SomeReview("subject", 1, "m1"), SomeReview("subject", 2, "m2"),
     SomeReview("teacher", 1, "m1")}

VotePool ==
    {[kind |-> "subject", review |-> 1, voter |-> "m3", vote |-> TRUE],
     [kind |-> "subject", review |-> 2, voter |-> "m1", vote |-> FALSE],
     [kind |-> "teacher", review |-> 1, voter |-> "m3", vote |-> FALSE]}

InitDelete ==
    /\ dataset = {[kind |-> k, id |-> 1] : k \in {"subject", "teacher", "program"}}
    /\ reviews \in SUBSET ReviewPool
    /\ votes \in SUBSET {v \in VotePool :
                            ByIdx(reviews, v.kind, v.review) # {}}
    /\ serial = [k \in ReviewKinds |-> 2]
    /\ today = 0
    /\ cast = {}
    /\ roles = [m \in Members |-> {}]
    /\ extensions = ReviewExtensions
    /\ school = NoSchool
    /\ last = NoDeed
    /\ steps = 0
    /\ NoChannels

NextDelete ==
    \/ \E k \in ReviewKinds, a \in {"m1", "m2"}, e \in EntityIds, ans \in Answers :
          steps < MaxDeletes /\ review_remove(k, a, e, ans)
    \/ \E k \in ReviewKinds, i \in 1..2, ans \in Answers :
          steps < MaxDeletes /\ review_sudo_remove(k, "m3", i, ans)
    \/ \E e \in EntityIds, ans \in Answers :
          steps < MaxDeletes /\ subject_delete("m3", e, ans)
    \/ \E e \in EntityIds, ans \in Answers :
          steps < MaxDeletes /\ teacher_delete("m3", e, ans)
    \/ \E d \in DegreeInputs, e \in EntityIds, ans \in Answers :
          steps < MaxDeletes /\ program_delete("m3", d, e, ans)

SpecDelete == InitDelete /\ [][NextDelete]_vars

\* --------------------------------------------------------------- C19
\* The reviews of the state that the next state has no more.
GoneReviews == {r \in reviews : ByIdx(reviews', r.kind, r.idx) = {}}

C19_Step ==
    /\ (dataset' # dataset \/ GoneReviews # {}) => last'.asked = "yes"
    /\ (steps' = steps + 1 /\ last'.asked \in {"timeout", "no"}) =>
          /\ dataset' = dataset
          /\ reviews' = reviews
          /\ votes' = votes

\* C19: a review (own remove or sudo remove), subject, teacher or program is
\* deleted only when the confirmation view returned true; when the view
\* times out or is declined the record and all votes stay as they were.
C19_ConfirmedDeletionOnly == [][C19_Step]_vars

\* After the teacher was deleted on a yes, a subject delete timed out and
\* left the subject, its reviews and their votes.
C19_Witness ==
    /\ steps = 2
    /\ last.op = "subject delete" /\ last.asked = "timeout"
    /\ [kind |-> "teacher", id |-> 1] \notin dataset
    /\ [kind |-> "subject", id |-> 1] \in dataset
    /\ \E r \in reviews : r.kind = "subject"
    /\ \E v \in votes : v.kind = "subject"

\* ------------------------------------------------ extensions of the embeds

\* Bound of SpecExtend: registrations, removals and embeds built.
MaxExtSteps == 4

\* Callbacks that get registered: _extend is Review._extend_subject or
\* Review._extend_teacher and adds the average grade; extra adds a field of
\* its own; broken raises at once; halfway adds a field and then raises.
Funcs == {"_extend", "extra", "broken", "halfway"}

\* func(ctx=ctx, embed=embed, ...): the fields of the embed afterwards, and
\* whether the call raised an Exception.
CallExt(func, embed) ==
    CASE func = "_extend" -> [embed |-> Append(embed, "Average grade:"), raised |-> FALSE]
      [] func = "extra" -> [embed |-> Append(embed, "extra"), raised |-> FALSE]
      [] func = "broken" -> [embed |-> embed, raised |-> TRUE]
      [] OTHER -> [embed |-> Append(embed, "halfway"), raised |-> TRUE]

\* The fields every embed of the kind starts with (the fields that depend on
\* urls, guarantor, teachers and programs are those of a record without any).
BaseFields(kind) ==
    CASE kind = "subject" -> <<"Abbreviation", "Institute", "Semester">>
      [] kind = "teacher" -> <<"ID">>
      [] OTHER -> <<"Abbreviation", "Degree">>

\* Mutant of Extend: no try around the call, the exception leaves the
\* function.
RECURSIVE Extend_Unguarded(_, _, _)
Extend_Unguarded(funcs, i, acc) ==
    IF i > Len(funcs) THEN acc
    ELSE LET res == CallExt(funcs[i], acc.embed)
             called == [acc EXCEPT !.embed = res.embed,
                                   !.invoked = Append(@, funcs[i])]
         IN  IF res.raised THEN [called EXCEPT !.returned = FALSE]
             ELSE Extend_Unguarded(funcs, i + 1, called)

\* for func in SchoolExtend._..._extension: try: func(...) / except
\* Exception: await bot_log.error(...).
RECURSIVE Extend(_, _, _)
Extend(funcs, i, acc) ==
    IF i > Len(funcs) THEN acc
    ELSE LET res == CallExt(funcs[i], acc.embed)
             called == [acc EXCEPT !.embed = res.embed,
                                   !.invoked = Append(@, funcs[i])]
         IN  Extend(funcs, i + 1,
                    IF res.raised
                    THEN [called EXCEPT !.logged = Append(@, funcs[i])]
                    ELSE called)

\* _get_subject_embed, _get_teacher_embed, _get_program_embed: the fields of
\* the embed, the callbacks called and those logged, and whether the embed
\* was returned.
GetEmbed(exts, kind, extend) ==
    LET base == [embed |-> BaseFields(kind), invoked |-> <<>>, logged |-> <<>>,
                 returned |-> TRUE]
    IN IF extend THEN Extend(exts[kind], 1, base) ELSE base

Built(op, kind, func, res) ==
    [op |-> op, kind |-> kind, func |-> func, embed |-> res.embed,
     invoked |-> res.invoked, logged |-> res.logged, returned |-> res.returned]

NothingBuilt == [embed |-> <<>>, invoked |-> <<>>, logged |-> <<>>,
                 returned |-> FALSE]

InList(seq, x) == \E i \in DOMAIN seq : seq[i] = x

\* list.remove(x): the list without the first x.
RECURSIVE Removed(_, _)
Removed(seq, x) ==
    IF seq = <<>> THEN <<>>
    ELSE IF Head(seq) = x THEN Tail(seq)
    ELSE <<Head(seq)>> \o Removed(Tail(seq), x)

ExtCommit(exts, res) ==
    /\ extensions' = exts
    /\ UNCHANGED school
    /\ last' = res
    /\ steps' = steps + 1
    /\ UNCHANGED <<channels, links, marks, reconciled, syncing, reviewVars, roles>>

\* SchoolExtend.add_subject_extension / add_teacher_extension /
\* add_program_extension; "None" is func is None.
add_extension(kind, func) ==
    ExtCommit(IF func = "None" \/ InList(extensions[kind], func)
              THEN extensions
              ELSE [extensions EXCEPT ![kind] = Append(@, func)],
              Built("add", kind, func, NothingBuilt))

\* SchoolExtend.remove_subject_extension / remove_teacher_extension /
\* remove_program_extension
remove_extension(kind, func) ==
    ExtCommit(IF InList(extensions[kind], func)
              THEN [extensions EXCEPT ![kind] = Removed(@, func)]
              ELSE extensions,
              Built("remove", kind, func, NothingBuilt))

\* subject info, teacher info, program info: the embed is built with
\* extend=True and sent.
info(kind) ==
    ExtCommit(extensions, Built("info", kind, "-", GetEmbed(extensions, kind, TRUE)))

InitExtend ==
    /\ extensions = NoExtensions
    /\ school = NoSchool
    /\ last = Built("init", "-", "-", NothingBuilt)
    /\ steps = 0
    /\ NoChannels
    /\ dataset = {} /\ reviews = {} /\ votes = {}
    /\ serial = [k \in ReviewKinds |-> 0]
    /\ today = 0
    /\ cast = {}
    /\ roles = [m \in Members |-> {}]

NextExtend ==
    \/ \E k \in ExtKinds, f \in Funcs \cup {"None"} :
          steps < MaxExtSteps /\ add_extension(k, f)
    \/ \E k \in ExtKinds, f \in Funcs :
          steps < MaxExtSteps /\ remove_extension(k, f)
    \/ \E k \in ExtKinds : steps < MaxExtSteps /\ info(k)

SpecExtend == InitExtend /\ [][NextExtend]_vars

\* --------------------------------------------------------------- C20
Raises(func) == CallExt(func, <<>>).raised

\* The elements of seq that raise, in the order of seq.
RaisingOf(seq) == SelectSeq(seq, Raises)

\* C20: when an info embed is built with extensions enabled and a registered
\* callback raises, the exception is caught for that callback alone: every
\* registered callback is invoked in registration order, the ones that raised
\* are the ones logged, and the embed is returned with its base fields.
C20_ExtensionIsolation ==
    last.op = "info" =>
        /\ last.returned
        /\ last.invoked = extensions[last.kind]
        /\ last.logged = RaisingOf(extensions[last.kind])
        /\ Len(last.embed) >= Len(BaseFields(last.kind))
        /\ SubSeq(last.embed, 1, Len(BaseFields(last.kind))) = BaseFields(last.kind)

\* An embed was built with a raising callback registered before a working
\* one, and the working one added its field.
C20_Witness ==
    /\ last.op = "info"
    /\ \E i, j \in DOMAIN extensions[last.kind] :
          /\ i < j
          /\ Raises(extensions[last.kind][i])
          /\ ~Raises(extensions[last.kind][j])
    /\ last.embed[Len(last.embed)] \in {"Average grade:", "extra"}

\* ============================ further claims on the teacher-channel cog

\* --------------------------------------------------------------- C26
\* The roles a channel id has in the rows: master of a row, slave of a row.
LinkRoles(lk, ch) ==
    {<<l, "master">> : l \in {x \in lk : x.master = ch}}
        \cup {<<l, "slave">> : l \in {x \in lk : x.slave = ch}}

\* C26: each channel id occurs in at most one ChannelLink counting both
\* roles (never master of one link and slave of another, never master and
\* slave of the same link), so the lookup by channel id matches at most one
\* row.
C26_OneLinkPerChannel ==
    \A c \in ChannelIds :
        /\ Cardinality(LinkRoles(links, c)) <= 1
        /\ Cardinality(GetRows(links, c)) <= 1

\* --------------------------------------------------------------- C24
\* The step is a command that finds nothing to do: the channel named is in
\* no link, or teacher add names a member marked on a link of the channel, or
\* teacher remove names a member marked on no link of the channel.
NothingFound ==
    /\ steps' = steps + 1
    /\ last'.op \in {"unset", "teacher_add", "teacher_remove"}
    /\ LET rows == GetRows(links, last'.ch)
       IN \/ rows = {}
          \/ /\ last'.op = "teacher_add"
             /\ \E l \in rows : last'.member \in TeacherIds(marks, l)
          \/ /\ last'.op = "teacher_remove"
             /\ \A l \in rows : last'.member \notin TeacherIds(marks, l)

C24_Step ==
    NothingFound =>
        /\ last'.reply \in {"never assigned", "could not add", "could not remove"}
        /\ links' = links /\ marks' = marks /\ channels' = channels

\* C24: unset, teacher add and teacher remove on a channel of no link, teacher
\* add for a member already marked and teacher remove for a member not marked
\* reply with a message, raise no exception and leave links, marks and all
\* overwrites unchanged.
C24_NotFoundIsAReply == [][C24_Step]_vars

\* --------------------------------------------------------------- C25
\* The step is teacher add or teacher remove on a channel of one link whose
\* slave channel is deleted.
StaleSlaveStep ==
    /\ steps' = steps + 1
    /\ last'.op \in {"teacher_add", "teacher_remove"}
    /\ Cardinality(GetRows(links, last'.ch)) = 1
    /\ \A l \in GetRows(links, last'.ch) : ~channels[l.slave].exists

C25_Step ==
    StaleSlaveStep =>
        \/ GetRows(links', last'.ch) = {}
        \/ /\ last'.reply # "AttributeError"
           /\ marks' # marks => last'.calls # <<>>

\* C25: teacher add or teacher remove through the master of a link whose
\* slave channel is deleted deletes the link row, or at least raises no
\* exception and changes no teacher mark without the matching overwrite call
\* on the slave.
C25_StaleSlaveInTeacherCommands == [][C25_Step]_vars

\* --------------------------------------------------------------- C27
\* The step is teacher add for a member not yet marked, or teacher remove for
\* a marked member, on a channel of a link.
TeacherStep(op) ==
    /\ steps' = steps + 1
    /\ last'.op = op
    /\ GetRows(links, last'.ch) # {}
    /\ \A l \in GetRows(links, last'.ch) :
          (last'.member \in TeacherIds(marks, l)) <=> (op = "teacher_remove")

\* What the command is to do on link l whichever of its channels was named:
\* the mark of the member on l and the member's overwrite on the slave of l
\* change, nothing else does.
OnSlaveOnly(l, member, mk, ow) ==
    /\ links' = links
    /\ marks' = mk
    /\ channels' = [channels EXCEPT ![l.slave].overwrites[member] = ow]
    /\ channels'[l.master].overwrites = channels[l.master].overwrites
    /\ \A o \in links \ {l} : TeacherIds(marks', o) = TeacherIds(marks, o)

C27_Step ==
    /\ TeacherStep("teacher_add") =>
          \E l \in GetRows(links, last'.ch) :
              OnSlaveOnly(l, last'.member,
                          marks \cup {[user |-> last'.member, slave |-> l.slave]}, "rw")
    /\ TeacherStep("teacher_remove") =>
          \E l \in GetRows(links, last'.ch) :
              OnSlaveOnly(l, last'.member,
                          marks \ {[user |-> last'.member, slave |-> l.slave]}, NoOw)

\* C27: teacher add and teacher remove have the same effect whether the
\* master or the slave of the link is named: add records the mark and sets
\* the member's overwrite to read and send on the slave, remove deletes the
\* mark and clears the overwrite on the slave, and neither changes an
\* overwrite of the master or the marks of another link.
C27_TeacherCommandsOnSlaveOnly == [][C27_Step]_vars

\* --------------------------------------------------------------- C30
\* No vote record is the author's own.
NoSelfVotes ==
    \A v \in votes : \A r \in ByIdx(reviews, v.kind, v.review) : r.author # v.voter

Refusals == {"own review", "no permission"}

\* An interaction by the author of the review is refused, and a refused
\* interaction leaves the vote records, upvotes and downvotes as they were.
C30_Step ==
    (steps' = steps + 1 /\ last'.op = "vote") =>
        /\ (\E r \in reviews : /\ r.kind = last'.kind /\ r.entity = last'.entity
                               /\ r.author = last'.who)
              => last'.reply = "own review"
        /\ last'.reply \in Refusals =>
              /\ votes' = votes
              /\ \A r \in reviews : /\ Upvotes(votes', r) = Upvotes(votes, r)
                                    /\ Downvotes(votes', r) = Downvotes(votes, r)

\* C30: after any sequence of vote_up, vote_down and vote_neutral
\* interactions no vote record has the author of the voted review as its
\* voter; an interaction by the author, or by a user without the permission,
\* is refused and changes no vote record and no count.
C30_NoSelfVotes == []NoSelfVotes /\ [][C30_Step]_vars

\* The author clicked on the own review after two others had voted on it.
C30_Witness ==
    /\ last.op = "vote" /\ last.reply = "own review"
    /\ \E r \in reviews :
          /\ r.author = last.who /\ r.kind = last.kind
          /\ Cardinality(Relevance(votes, r.kind, r.idx)) = 2

\* --------------------------------------------------------------- C29
RoleIndex(role) == CHOOSE i \in DOMAIN RoleOrder : RoleOrder[i] = role

\* The roles between two roles in the guild's role order, both included.
RolesBetween(a, b) ==
    {RoleOrder[i] : i \in (IF RoleIndex(a) <= RoleIndex(b)
                           THEN RoleIndex(a) .. RoleIndex(b)
                           ELSE RoleIndex(b) .. RoleIndex(a))}

C29_Step ==
    (steps' = steps + 1 /\ last'.op = "role_reset") =>
        LET range == RolesBetween(last'.args[1], last'.args[2])
            had == {<<r, m>> \in range \X Members : r \in roles[m]}
            gone == {x \in had : ~RemoveFails(x[1], x[2], last'.denied)}
        IN /\ roles' = [m \in Members |-> roles[m] \ {r \in range : <<r, m>> \in gone}]
           /\ last'.calls = gone

\* C29: for every pair of roles of the guild, in either order and also when
\* both are the same role, role-reset removes from their members exactly the
\* roles between the two in the guild's role order, both ends included, and
\* no other role; a removal that fails does not stop the removals that
\* remain.
C29_RoleRange == [][C29_Step]_vars

\* ------------------------------------------- the dataset of the school cog
\* school.teachers holds the school ids of the Teacher rows, school.subjects
\* the Subject rows [abbr, name, guarantor, teachers] (guarantor 0 is NULL),
\* school.programs the Program rows [abbr, degree] and school.relations the
\* SubjectProgram rows [subject, program, degree, year, obligation].  All
\* rows are of one guild.
MaxSchoolSteps == 3

OBLIGATIONS == {"P", "PV", "D", "V", "VO", "O"}

DegreeLetters == {"B", "D", "M", "N"}

DEGREE_MAPPING(letter) ==
    CASE letter = "B" -> "Bachelor"
      [] letter = "D" -> "Doctoral"
      [] letter = "M" -> "Masters"
      [] letter = "N" -> "Masters"

\* A programme code is the sequence of the pieces its text has between the
\* dashes: "B-BIT-1-P" is <<"B", "BIT", "1", "P">>.  Letters are the pieces
\* of one character of [A-z] that the codes below use.
Letters == {"A", "B", "N", "X", "P", "V", "Z"}

\* int() of the piece that names the year, as the Integer column stores it.
YearOf(piece) == CASE piece = "1" -> 1 [] piece = "2" -> 2

\* The first matching entry of the elif chain of _import_school_data.
DegreeOf(degrees) ==
    IF "Bachelor" \in degrees THEN "Bachelor"
    ELSE IF "Masters" \in degrees THEN "Masters"
    ELSE IF "Doctoral" \in degrees THEN "Doctoral"
    ELSE "None"

\* re.search(r"^[A-z]-", program_data): the degree a code names itself, or
\* "None" when it names none.
SpecDegree(code) ==
    IF Len(code) > 1 /\ Head(code) \in Letters
    THEN IF Head(code) \in DegreeLetters
         THEN DEGREE_MAPPING(Head(code))
         ELSE Head(code) \o "-UNKNOWN"
    ELSE "None"

\* program_data.split("-") after the re.sub took the degree away.
ProgramInfo(code) == IF SpecDegree(code) # "None" THEN Tail(code) ELSE code

\* The dict _import_programs builds of one code; program_info[1] of a code
\* of one piece raises IndexError.
ProgramOf(code, degree) ==
    LET program_info == ProgramInfo(code)
    IN [abbr |-> IF program_info[2] # "A" THEN program_info[1]
                 ELSE program_info[1] \o "-" \o program_info[2],
        year |-> YearOf(program_info[Len(program_info) - 1]),
        obligation |-> program_info[Len(program_info)],
        degree |-> IF SpecDegree(code) # "None" THEN SpecDegree(code) ELSE degree]

\* True when seq holds x (x in list).
Listed(seq, x) == \E i \in DOMAIN seq : seq[i] = x

\* _import_programs: the dicts of the codes in the order of the codes, each
\* once; raised tells the IndexError of a code that is too short.
RECURSIVE import_programs_list(_, _, _)
import_programs_list(codes, degree, programs) ==
    IF codes = <<>> THEN [programs |-> programs, raised |-> "None"]
    ELSE IF Len(ProgramInfo(Head(codes))) < 2
         THEN [programs |-> programs, raised |-> "IndexError"]
    ELSE LET program == ProgramOf(Head(codes), degree)
         IN import_programs_list(Tail(codes), degree,
                IF Listed(programs, program) THEN programs
                ELSE Append(programs, program))

HasSubject(sc, abbr) == \E s \in sc.subjects : s.abbr = abbr
SubjectRow(sc, abbr) == CHOOSE s \in sc.subjects : s.abbr = abbr

\* The table of subjects with row old replaced by row new.
WithSubject(sc, old, new) ==
    [sc EXCEPT !.subjects = (@ \ {old}) \cup {new}]

\* The SubjectProgram row that links the subject with a program.
Relation(abbr, program) ==
    [subject |-> abbr, program |-> program.abbr, degree |-> program.degree,
     year |-> program.year, obligation |-> program.obligation]

RelationsOf(sc, abbr) == {r \in sc.relations : r.subject = abbr}

\* Program.get_or_create for each dict of programs.
WithPrograms(sc, programs) ==
    [sc EXCEPT !.programs = @ \cup
        {[abbr |-> programs[i].abbr, degree |-> programs[i].degree] :
             i \in DOMAIN programs}]

\* Subject.from_json: the row of the abbreviation gets the name of the record;
\* a subject that has no row gets one by session.merge, which copies the new
\* Subject into the session and leaves the object it was given, the one
\* from_json returns, outside of it.
from_json(sc, rec) ==
    IF HasSubject(sc, rec.abbr)
    THEN WithSubject(sc, SubjectRow(sc, rec.abbr),
                     [SubjectRow(sc, rec.abbr) EXCEPT !.name = rec.name])
    ELSE [sc EXCEPT !.subjects = @ \cup
            {[abbr |-> rec.abbr, name |-> rec.name, guarantor |-> 0,
              teachers |-> {}]}]

\* Subject.set_guarantor and Subject.set_teachers of a subject in the session.
set_guarantor(sc, abbr, guarantor) ==
    WithSubject(sc, SubjectRow(sc, abbr),
        [SubjectRow(sc, abbr) EXCEPT
            !.guarantor = IF Len(guarantor) # 0 THEN guarantor[1] ELSE 0])

set_teachers(sc, abbr, teachers) ==
    WithSubject(sc, SubjectRow(sc, abbr),
        [SubjectRow(sc, abbr) EXCEPT
            !.teachers = {teachers[i] : i \in DOMAIN teachers}])

\* Subject.import_programs of a subject in the session: the links the subject
\* had are orphans and go, the links of programs come.
import_programs(sc, abbr, programs) ==
    [WithPrograms(sc, programs) EXCEPT !.relations =
        (@ \ RelationsOf(sc, abbr)) \cup
        {Relation(abbr, programs[i]) : i \in DOMAIN programs}]

\* Subject.import_programs of the object from_json made: it is in no session.
\* Where assigning a back-populated attribute cascades the object into the
\* session (cascade), the first link brings the subject in as a second row of
\* its abbreviation and the next flush fails on the unique constraint; where
\* it does not (plain), the commit has no link to write.
import_programs_new(sc, programs, build) ==
    IF programs = <<>> THEN [school |-> sc, raised |-> "None"]
    ELSE IF build = "cascade"
         THEN [school |-> WithPrograms(sc, <<Head(programs)>>),
               raised |-> "IntegrityError"]
    ELSE [school |-> WithPrograms(sc, programs), raised |-> "None"]

\* _import_teachers: Teacher has no update_or_create (database.py:82-224), so
\* the first entry raises AttributeError; no entry gives the empty list.
import_teachers(sids) ==
    IF sids = {} THEN [teachers |-> <<>>, raised |-> "None"]
    ELSE [teachers |-> <<>>, raised |-> "AttributeError"]

\* One turn of the loop of _import_school_data: counted is what it adds to i.
ImportRecord(sc, rec, build) ==
    LET stay(err) == [school |-> sc, counted |-> 0, raised |-> err]
        guarantor == import_teachers(rec.guarantors)
        teachers == import_teachers(rec.teachers)
        known == HasSubject(sc, rec.abbr)
        merged == from_json(sc, rec)
        cleared == IF known
               THEN set_teachers(set_guarantor(merged, rec.abbr, guarantor.teachers),
                                 rec.abbr, teachers.teachers)
               ELSE merged
        parsed == import_programs_list(rec.codes, DegreeOf(rec.degrees), <<>>)
        fresh == import_programs_new(cleared, parsed.programs, build)
    IN CASE guarantor.raised # "None" -> stay(guarantor.raised)
         [] teachers.raised # "None" /\ guarantor.raised = "None" ->
                stay(teachers.raised)
         [] OTHER ->
            IF rec.abbr = "" THEN stay("None")
            ELSE IF parsed.raised # "None"
                 THEN [school |-> cleared, counted |-> 0, raised |-> parsed.raised]
            ELSE IF known
                 THEN [school |-> import_programs(cleared, rec.abbr, parsed.programs),
                       counted |-> 1, raised |-> "None"]
            ELSE [school |-> fresh.school,
                  counted |-> IF fresh.raised = "None" THEN 1 ELSE 0,
                  raised |-> fresh.raised]

\* _import_school_data: the records in turn; an exception ends the import and
\* what was committed before it stays.
RECURSIVE import_school_data(_, _, _, _)
import_school_data(sc, data, i, build) ==
    IF data = <<>> THEN [school |-> sc, imported |-> i, raised |-> "None"]
    ELSE LET turn == ImportRecord(sc, Head(data), build)
         IN IF turn.raised # "None"
            THEN [school |-> turn.school, imported |-> i, raised |-> turn.raised]
            ELSE import_school_data(turn.school, Tail(data), i + turn.counted,
                                    build)

\* What a command of the dataset did: its replies in order, the exception it
\* ended with, and what it was called with.
NoLink == [degree |-> "-", program |-> "-", subject |-> "-", year |-> 0,
           obligation |-> "-"]

Schooled ==
    [op |-> "init", data |-> <<>>, link |-> NoLink, sent |-> <<>>,
     raised |-> "None", imported |-> 0]

SchoolCommit(sc, res) ==
    /\ school' = sc
    /\ last' = res
    /\ steps' = steps + 1
    /\ UNCHANGED <<channels, links, marks, reconciled, syncing, reviewVars,
                   roles, extensions>>

\* school import with one attachment of valid JSON that holds data.
school_import(data, build) ==
    LET done == import_school_data(school, data, 0, build)
    IN SchoolCommit(done.school,
           [Schooled EXCEPT
               !.op = "import", !.data = data, !.raised = done.raised,
               !.imported = done.imported,
               !.sent = IF done.raised = "None"
                        THEN <<"Processing", "Processed records">>
                        ELSE <<"Processing">>])

\* Program.get_by_abbreviation: degree LIKE 'letter%'.
DegreeLike(degree, letter) ==
    \/ letter = "B" /\ degree = "Bachelor"
    \/ letter = "M" /\ degree = "Masters"
    \/ letter = "D" /\ degree = "Doctoral"

\* str.upper of the obligations the commands are given.
Upper(text) ==
    CASE text = "p" -> "P"
      [] text = "z" -> "Z"
      [] OTHER -> text

\* _link_program_subject, of program subject add and subject program add.
\* An obligation that is not listed builds the message of the valid ones with
\* School._translate_obligation(obligation), a call of a function of two
\* parameters with one argument: TypeError.
link_program_subject(degree, program_abbreviation, subject_abbreviation, year, obligation) ==
    LET called == [Schooled EXCEPT
                      !.op = "link",
                      !.link = [degree |-> degree,
                                program |-> program_abbreviation,
                                subject |-> subject_abbreviation,
                                year |-> year, obligation |-> obligation]]
        found == {p \in school.programs :
                     p.abbr = program_abbreviation /\ DegreeLike(p.degree, degree)}
        program == CHOOSE p \in found : TRUE
        relation == [subject |-> subject_abbreviation, program |-> program.abbr,
                     degree |-> program.degree, year |-> year,
                     obligation |-> Upper(obligation)]
    IN CASE found = {} ->
              SchoolCommit(school, [called EXCEPT !.sent = <<"Program not found">>])
         [] found # {} /\ ~HasSubject(school, subject_abbreviation) ->
              SchoolCommit(school, [called EXCEPT !.sent = <<"Subject not found">>])
         [] OTHER ->
              IF Upper(obligation) \notin OBLIGATIONS
              THEN SchoolCommit(school, [called EXCEPT !.raised = "TypeError"])
              ELSE IF relation \in school.relations
                   THEN SchoolCommit(school,
                            [called EXCEPT !.sent = <<"already exists">>])
              ELSE SchoolCommit([school EXCEPT !.relations = @ \cup {relation}],
                                [called EXCEPT !.sent = <<"linked">>])


\* Codes of the import: two that name the same link once the record is of
\* bachelor studies, one of a specialisation, one whose degree has no mapping
\* and whose obligation is not listed, and one that is too short.
BIT1P == <<"B", "BIT", "1", "P">>
Bit1P == <<"BIT", "1", "P">>
MitA2V == <<"N", "MIT", "A", "2", "V">>
Xit1Z == <<"X", "BIT", "1", "Z">>
Short == <<"B", "BIT">>

Record(abbr, name, guarantors, teachers, codes, degrees) ==
    [abbr |-> abbr, name |-> name, guarantors |-> guarantors,
     teachers |-> teachers, codes |-> codes, degrees |-> degrees]

RecordPool ==
    {Record("IZP", "n1", {}, {}, <<BIT1P, Bit1P>>, {"Bachelor", "Masters"}),
     Record("IZP", "n2", {}, {}, <<MitA2V>>, {}),
     Record("IZP", "n1", {}, {}, <<>>, {"Bachelor"}),
     Record("IZP", "n1", {}, {}, <<Short>>, {"Bachelor"}),
     Record("IEL", "n1", {}, {}, <<Xit1Z, BIT1P>>, {"Doctoral"}),
     Record("IEL", "n1", {1}, {1, 2}, <<BIT1P>>, {"Bachelor"}),
     Record("", "n1", {}, {}, <<BIT1P>>, {"Bachelor"})}

\* The files that get imported hold one or two records.
DataPool ==
    {<<r>> : r \in RecordPool} \cup {<<r, q>> : r \in RecordPool, q \in RecordPool}

\* How the session treats an object that is linked to one of its own.
Builds == {"cascade", "plain"}

InitImport ==
    /\ NoChannels
    /\ NothingElse
    /\ last = Schooled
    /\ steps = 0

NextImport ==
    \/ \E data \in DataPool, build \in Builds :
          steps < MaxSchoolSteps /\ school_import(data, build)
    \/ \E subject \in {"IZP", "IEL"}, year \in {1, 2}, obligation \in {"P", "p", "Z"} :
          steps < MaxSchoolSteps
          /\ link_program_subject("B", "BIT", subject, year, obligation)

SpecImport == InitImport /\ [][NextImport]_vars

\* --------------------------------------------------------------- C23
\* The program and the subject a link command names are both stored.
LinkResolves(link) ==
    /\ \E p \in school.programs :
          p.abbr = link.program /\ DegreeLike(p.degree, link.degree)
    /\ HasSubject(school, link.subject)

ObligationsListed == \A r \in school.relations : r.obligation \in OBLIGATIONS

C23_Step ==
    (/\ last'.op = "link"
     /\ LinkResolves(last'.link)
     /\ Upper(last'.link.obligation) \notin OBLIGATIONS)
    => /\ last'.sent = <<"Obligation must be">>
       /\ last'.raised = "None"
       /\ school'.relations = school.relations

\* C23: every stored link of a subject and a program has an obligation of
\* OBLIGATIONS, whether the import or a command stored it, and the link
\* command given another obligation answers with the list of the valid ones
\* and stores no link.
C23_ClosedObligations == []ObligationsListed /\ [][C23_Step]_vars

\* --------------------------------------------------------------- C22
\* Every record of data names a subject, a guarantor and a teacher.
NamesTeachers(data) ==
    /\ data # <<>>
    /\ \A i \in DOMAIN data :
          data[i].abbr # "" /\ data[i].guarantors # {} /\ data[i].teachers # {}

\* The last record of data for the subject of record i is record i.
LastOfSubject(data, i) ==
    \A j \in DOMAIN data : data[j].abbr = data[i].abbr => j <= i

\* The tables hold what the records of data say, each row once.
Upserted(sc, data) ==
    \A i \in DOMAIN data :
        /\ data[i].guarantors \cup data[i].teachers \subseteq sc.teachers
        /\ Cardinality({s \in sc.subjects : s.abbr = data[i].abbr}) = 1
        /\ LastOfSubject(data, i) =>
              /\ SubjectRow(sc, data[i].abbr).teachers = data[i].teachers
              /\ SubjectRow(sc, data[i].abbr).guarantor \in data[i].guarantors

C22_Step ==
    (last'.op = "import" /\ NamesTeachers(last'.data))
    => /\ last'.raised = "None"
       /\ Upserted(school', last'.data)
       /\ \A build \in Builds :
             LET again == import_school_data(school', last'.data, 0, build)
             IN again.raised = "None" /\ again.school = school'

\* C22: an import of records that name teachers and guarantors ends without
\* an exception and leaves one Teacher row for every school id and one
\* Subject row for every abbreviation it names, the subject with the teachers
\* and a guarantor of its record; importing the same records again changes
\* no row and does not fail.
C22_ImportUpserts == [][C22_Step]_vars

\* --------------------------------------------------------------- C21
\* Every record of data names a subject and every code of it has a program,
\* a year and an obligation.
WellFormed(data) ==
    \A i \in DOMAIN data :
        /\ data[i].abbr # ""
        /\ \A k \in DOMAIN data[i].codes :
              Len(ProgramInfo(data[i].codes[k])) >= 3

\* The links the codes of a record name: each (program, year, obligation)
\* once.
LinksOf(rec) ==
    {Relation(rec.abbr, ProgramOf(rec.codes[k], DegreeOf(rec.degrees))) :
         k \in DOMAIN rec.codes}

C21_Step ==
    (last'.op = "import" /\ WellFormed(last'.data))
    => \A i \in DOMAIN last'.data :
          LastOfSubject(last'.data, i)
          => RelationsOf(school', last'.data[i].abbr) = LinksOf(last'.data[i])

\* C21: after an import, the links of every subject the file has a record of
\* are exactly the links the programme codes of its (last) record name; a
\* link the subject had before, from an import or from the link command, that
\* the record does not name is gone.
C21_LinksReplaced == [][C21_Step]_vars

\* ------------------------------------------------------- editing a subject
MaxSubjectEdits == 1

\* The parameters of subject edit as _parse_subject_parameters returns them:
\* "" and 0 stand for None, the lists are empty when not given.
NoEdit == [subject |-> "-", abbreviation |-> "", name |-> "", guarantor |-> 0,
           teachers_add |-> <<>>, teachers_remove |-> <<>>]

SubjectEdited == [Schooled EXCEPT !.op = "edit"] @@ [edit |-> NoEdit]

\* _parse_teachers_args: the Teacher rows of the ids, or None after the reply
\* that tells the id that is unknown or given twice.
RECURSIVE parse_teachers_args(_, _, _)
parse_teachers_args(sc, teachers, teachers_list) ==
    IF teachers = <<>>
    THEN [teachers |-> teachers_list, none |-> FALSE, sent |-> <<>>]
    ELSE IF Head(teachers) \notin sc.teachers
         THEN [teachers |-> <<>>, none |-> TRUE, sent |-> <<"Teacher not found">>]
    ELSE IF Listed(teachers_list, Head(teachers))
         THEN [teachers |-> <<>>, none |-> TRUE, sent |-> <<"more than once">>]
    ELSE parse_teachers_args(sc, Tail(teachers), Append(teachers_list, Head(teachers)))

\* Subject.add_teachers and Subject.remove_teachers: the row after them and
\* the ids they ignored.
add_teachers(row, teachers) ==
    [row |-> [row EXCEPT !.teachers = @ \cup Range(teachers)],
     ignored |-> SelectSeq(teachers, LAMBDA t : t \in row.teachers)]

remove_teachers(row, teachers) ==
    [row |-> [row EXCEPT !.teachers = @ \ Range(teachers)],
     ignored |-> SelectSeq(teachers, LAMBDA t : t \notin row.teachers)]

\* Subject.edit: only what is given is set.
edit(row, abbreviation, name, guarantor) ==
    [row EXCEPT !.abbr = IF abbreviation # "" THEN abbreviation ELSE @,
                !.name = IF name # "" THEN name ELSE @,
                !.guarantor = IF guarantor # 0 THEN guarantor ELSE @]

\* The tables with the row of a subject replaced; its links follow the row.
WithEdited(sc, old, new) ==
    [WithSubject(sc, old, new) EXCEPT !.relations =
        {IF r.subject = old.abbr THEN [r EXCEPT !.subject = new.abbr] ELSE r :
             r \in @}]

subject_edit(abbreviation, args) ==
    LET called == [SubjectEdited EXCEPT !.edit = [args EXCEPT !.subject = abbreviation]]
        subject == SubjectRow(school, abbreviation)
        same == args.abbreviation = subject.abbr
        both == \E i \in DOMAIN args.teachers_add :
                    Listed(args.teachers_remove, args.teachers_add[i])
        teachers_add == parse_teachers_args(school, args.teachers_add, <<>>)
        teachers_remove == parse_teachers_args(school, args.teachers_remove, <<>>)
        added == IF teachers_add.teachers # <<>>
                 THEN add_teachers(subject, teachers_add.teachers)
                 ELSE [row |-> subject, ignored |-> <<>>]
        removed == IF teachers_remove.teachers # <<>>
                   THEN remove_teachers(added.row, teachers_remove.teachers)
                   ELSE [row |-> added.row, ignored |-> <<>>]
        done == edit(removed.row, IF same THEN "" ELSE args.abbreviation,
                     args.name, args.guarantor)
    IN CASE ~HasSubject(school, abbreviation) ->
              SchoolCommit(school, [called EXCEPT !.sent = <<"Subject not found">>])
         [] OTHER ->
              IF args.guarantor # 0 /\ args.guarantor \notin school.teachers
              THEN SchoolCommit(school,
                       [called EXCEPT !.sent = <<"Teacher not found">>])
              ELSE IF args.abbreviation # "" /\ ~same
                      /\ HasSubject(school, args.abbreviation)
              THEN SchoolCommit(school,
                       [called EXCEPT !.sent = <<"already exists">>])
              ELSE IF both
              THEN SchoolCommit(school, [called EXCEPT !.raised = "AttributeError"])
              ELSE SchoolCommit(WithEdited(school, subject, done),
                       [called EXCEPT !.sent =
                           teachers_add.sent \o teachers_remove.sent
                           \o <<"Subject successfuly edited">>])

\* What subject edit is called with: a subject that is stored or not, a new
\* abbreviation that is free, taken or its own, a guarantor and teachers that
\* are stored (1, 2) or not (9), ids given twice and ids given in both lists.
EditArgs ==
    [subject : {"-"},
     abbreviation : {"", "IZP", "IEL", "IFJ"},
     name : {"", "n2"},
     guarantor : {0, 2, 9},
     teachers_add : {<<>>, <<2>>, <<9>>, <<2, 2>>, <<1, 2>>},
     teachers_remove : {<<>>, <<1>>, <<9>>, <<1, 1>>}]

\* Teachers 1 and 2 and subjects IZP, which teacher 1 guarantees and teaches,
\* and IEL are stored.
InitSubjectEdit ==
    /\ NoChannels
    /\ dataset = {} /\ reviews = {} /\ votes = {}
    /\ serial = [k \in {"subject", "teacher"} |-> 0]
    /\ today = 0
    /\ cast = {}
    /\ roles = [m \in Members |-> {}]
    /\ extensions = NoExtensions
    /\ school = [NoSchool EXCEPT
                    !.teachers = {1, 2},
                    !.subjects =
                        {[abbr |-> "IZP", name |-> "n1", guarantor |-> 1,
                          teachers |-> {1}],
                         [abbr |-> "IEL", name |-> "n1", guarantor |-> 0,
                          teachers |-> {}]}]
    /\ last = SubjectEdited
    /\ steps = 0

NextSubjectEdit ==
    \E abbreviation \in {"IZP", "IEL", "IFJ"}, args \in EditArgs :
        steps < MaxSubjectEdits /\ subject_edit(abbreviation, args)

SpecSubjectEdit == InitSubjectEdit /\ [][NextSubjectEdit]_vars

\* --------------------------------------------------------------- C28
\* A list names an id twice.
Twice(seq) == \E i, j \in DOMAIN seq : i # j /\ seq[i] = seq[j]

\* What the parameters of an edit of a stored subject must not be.
Faulty(args) ==
    \/ \E t \in Range(args.teachers_add) \cup Range(args.teachers_remove) :
          t \notin school.teachers
    \/ Twice(args.teachers_add) \/ Twice(args.teachers_remove)
    \/ Range(args.teachers_add) \cap Range(args.teachers_remove) # {}
    \/ args.guarantor # 0 /\ args.guarantor \notin school.teachers
    \/ /\ args.abbreviation \notin {"", args.subject}
       /\ HasSubject(school, args.abbreviation)

C28_Step ==
    (/\ last'.op = "edit"
     /\ HasSubject(school, last'.edit.subject)
     /\ Faulty(last'.edit))
    => /\ school' = school
       /\ ~Listed(last'.sent, "Subject successfuly edited")

\* C28: subject edit with a teacher id that is unknown or given twice in one
\* list or given in both lists, with an unknown guarantor or with a new
\* abbreviation that is taken changes no teacher, no guarantor and no field
\* of the subject and does not answer that the subject was edited.
C28_EditAllOrNothing == [][C28_Step]_vars

====
